---- MODULE Spec2Model ----
(***************************************************************************)
(* Predator-prey coevolution simulation (backend/core/simulation.py,       *)
(* agents.py, genetic_algorithm.py) and its REST transport (api.py).       *)
(*                                                                         *)
(* Scale of the model.  The arena is a line of integer positions           *)
(* 0..CANVAS_WIDTH and distances are |dx|; energies are counted in units   *)
(* of BACTERIA_GLUCOSE_CONSUMPTION_RATE; genes take the values 0 and 1     *)
(* (of GENE_MAX); colours are grey levels 0..COLOR_MAX.  The configuration *)
(* values below are reduced so that a bounded run reaches what the code    *)
(* reaches only after many ticks.  They keep the order relations of        *)
(* config.py that the code's behaviour depends on:                         *)
(*   0 < BACTERIA_GLUCOSE_CONSUMPTION_RATE < ENERGY_LOSS                   *)
(*   GENERATIONS_PER_EPOCH * ENERGY_LOSS < BASE_ENERGY                     *)
(*   BASE_ENERGY < BACTERIA_REPRODUCTION_ENERGY_THRESHOLD < MAX_ENERGY     *)
(*   BACTERIA_REPRODUCTION_ENERGY_COST <= ..._ENERGY_THRESHOLD             *)
(*   CAPTURE_RADIUS < DETECTION_RADIUS                                     *)
(*   MIN_POP_SIZE <= INITIAL_*_COUNT <= population caps                    *)
(*   GLUCOSE_RESPAWN_THRESHOLD <= INITIAL_GLUCOSE_COUNT <= MAX_GLUCOSE     *)
(***************************************************************************)
EXTENDS Integers, Sequences, FiniteSets, TLC

VARIABLES
    simulation,   \* the Simulation object: a record of its fields
    lastOp,       \* the public operation called last (observation only)
    lastExc,      \* whether that call raised, or step() caught, an exception
    \* api.py, used by the specification of the REST transport only
    is_running,         \* the module global is_running
    simulation_thread,  \* the module global: the driver thread started last
    simulation_lock,    \* the threads holding simulation_lock (none or one)
    pc,                 \* where each thread of the transport is
    waited              \* per client: effective driver steps begun since its
                        \* stop or reset request reached the lock (observation)

core == <<simulation, lastOp, lastExc>>
transport == <<is_running, simulation_thread, simulation_lock, pc, waited>>
vars == <<simulation, lastOp, lastExc,
          is_running, simulation_thread, simulation_lock, pc, waited>>

\* ------------------------------------------------------------------------
\* Bounds of the model
\* ------------------------------------------------------------------------
MaxGen == 3            \* step() is not called once generation = MaxGen
MaxGlucoseX == 0       \* a glucose is drawn at a position 0..MaxGlucoseX
MaxGeneSpread == 0     \* a phagocyte genome is drawn with
                       \* |sensitivity - aggression| <= MaxGeneSpread
NumClients == 1        \* request-handling threads of the REST transport
MaxStarts == 2         \* POST /api/simulation/start is served MaxStarts times
MaxOvertakes == 2      \* waited counts up to MaxOvertakes
MaxMoveWidth == 3      \* move() is called with canvas_width in 1..MaxMoveWidth
MaxMutation == 2       \* a mutation adds -MaxMutation..MaxMutation to a gene
MaxStageAgents == 2    \* bacteria, and phagocytes, of a simulation a single
                       \* stage is applied to
MaxStageGeneration == 3 \* step() is called one call after another until
                        \* generation = MaxStageGeneration
MaxOverPopulation == 2 \* control_population_size is called with up to
                       \* MaxOverPopulation agents above each limit
MaxRandomIds == 2      \* random.randint(1000, 9999) draws one of the first
                       \* MaxRandomIds values

\* ------------------------------------------------------------------------
\* Configuration (config.py), reduced as described above
\* ------------------------------------------------------------------------
CANVAS_WIDTH == 1
MAX_GENERATIONS == 2
INITIAL_BACTERIA_COUNT == 2
INITIAL_PHAGOCYTE_COUNT == 1
MAX_POPULATION == 4
MAX_SPEED == 1
DETECTION_RADIUS == 2
CAPTURE_RADIUS == 1
ENERGY_GAIN == 8
ENERGY_LOSS == 2
GENERATIONS_PER_EPOCH == 3
AGENT_SIZE == 0
PHAGOCYTE_SIZE == 0
PHAGOCYTE_SPAWN_POINT == CANVAS_WIDTH
PHAGOCYTE_SPAWN_RADIUS == 0
RANKING_UPDATE_FREQUENCY == 2
INITIAL_GLUCOSE_COUNT == 1
MAX_GLUCOSE_COUNT == 2
GLUCOSE_RESPAWN_THRESHOLD == 1
BACTERIA_GLUCOSE_CONSUMPTION_RATE == 1
BACTERIA_REPRODUCTION_ENERGY_THRESHOLD == 24
BACTERIA_REPRODUCTION_ENERGY_COST == 12
BACTERIA_REPRODUCTION_COOLDOWN == 2
BACKGROUND_COLOR == 1
MUTATION_RATE == 1
CROSSOVER_RATE == 80
MUTATION_STRENGTH == 10
VULNERABILITY_COLOR_WEIGHT == 6
VULNERABILITY_ENERGY_WEIGHT == 3
VULNERABILITY_AGE_WEIGHT == 1

\* Literals of the code
MAX_ENERGY == 32       \* 200.0 in Agent.move, capture_bacteria, feeding
BASE_ENERGY == 16       \* Agent.energy default 100.0, coevolution_step reset
MAX_AGE == 1000        \* Agent.is_alive: age < 1000
MIN_POP_SIZE == 1      \* evolve_population: min_pop_size
MAX_HISTORY == 2       \* max_history of the rolling statistics
GENE_MAX == 1          \* a gene is a float in [0,1]: levels 0..GENE_MAX
COLOR_MAX == 1         \* a colour channel is 0..255: levels 0..COLOR_MAX
GLUCOSE_MAX_ENERGY == 2 \* Glucose.energy = size * 5.0, size in [5,20]
GLUCOSE_RADIUS == 1    \* glucose.size / 2 in the consumption radius
VULNERABILITY_AGE_SPAN == 500 \* age_factor = min(1.0, age / 500.0)
VEL_UNIT == 4          \* a velocity of magnitude 1.0 (normalize_velocity)
TURN_RATE == 1         \* SimulationConfig.TURN_RATE, in 1/VEL_UNIT

Genes == 0..GENE_MAX
Colors == 0..COLOR_MAX
Positions == 0..CANVAS_WIDTH

Min(a, b) == IF a < b THEN a ELSE b
Max(a, b) == IF a > b THEN a ELSE b
Abs(a) == IF a < 0 THEN -a ELSE a

RECURSIVE SeqSum(_)
SeqSum(q) == IF q = <<>> THEN 0 ELSE Head(q) + SeqSum(Tail(q))

Range(q) == {q[i] : i \in 1..Len(q)}

\* list.remove(v): q without the first occurrence of v
RECURSIVE RemoveFirst(_, _)
RemoveFirst(q, v) ==
    IF q = <<>> THEN <<>>
    ELSE IF Head(q) = v THEN Tail(q)
                        ELSE <<Head(q)>> \o RemoveFirst(Tail(q), v)

\* list.append(v) followed by "if len(list) > max_history: list.pop(0)"
\* An append that never drops an entry
Uncapped(q, v) == Append(q, v)

AppendCapped(q, v) ==
    LET r == Append(q, v) IN IF Len(r) > MAX_HISTORY THEN Tail(r) ELSE r

\* The smallest object identity not in use
FreshOid(used) ==
    CHOOSE n \in 1..(Cardinality(used) + 1) :
        n \notin used /\ \A m \in 1..(n - 1) : m \in used

\* ------------------------------------------------------------------------
\* Agents (agents.py)
\* ------------------------------------------------------------------------
\* Bacteria.__init__ / Agent.__init__: energy 100.0, age 0, fitness 0.0,
\* reproduction_cooldown 0, offspring_count 0.  color is what
\* genome_to_color derives from color_gene; wide tells whether the genome
\* has the two extra keys of Genome.create_random("bacteria").
NewBacteria(x, color, wide) ==
    [x |-> x, color |-> color, wide |-> wide, energy |-> BASE_ENERGY,
     age |-> 0, fitness |-> 0, reproduction_cooldown |-> 0,
     offspring_count |-> 0]

\* Phagocyte.__init__: the genome's sensitivity_gene and aggression_gene;
\* wide tells whether it has the extra key of Genome.create_random.
\* fitness is a fraction num/den (0.0 at creation).
NewPhagocyte(x, sens, aggr, wide) ==
    [x |-> x, sens |-> sens, aggr |-> aggr, wide |-> wide,
     energy |-> BASE_ENERGY, age |-> 0, fitness |-> <<0, 1>>]

\* Glucose.__init__: energy = size * 5.0, consumed = False
NewGlucose(x, energy) == [x |-> x, energy |-> energy, consumed |-> FALSE]

\* Agent.is_alive
is_alive(a) == a.energy > 0 /\ a.age < MAX_AGE

\* Glucose.is_active
is_active(g) == ~g.consumed /\ g.energy > 0

\* A consume that never marks the glucose as consumed
NeverConsumed(g, amount) ==
    <<[g EXCEPT !.energy = @ - Min(amount, @)], Min(amount, g.energy)>>

\* Glucose.consume(amount): <<the glucose afterwards, energy given>>
consume(g, amount) ==
    IF g.consumed THEN <<g, 0>>
    ELSE LET given == Min(amount, g.energy)
             left == g.energy - given
         IN <<[g EXCEPT !.energy = left, !.consumed = (left <= 0)], given>>

\* ------------------------------------------------------------------------
\* Simulation (simulation.py)
\* ------------------------------------------------------------------------
\* The statistics ledger of __post_init__
PostInitStats ==
    [total_captures |-> 0,
     total_reproductions |-> 0,
     glucose_consumed |-> 0,
     max_fitness_history |-> [bacteria |-> <<>>, phagocytes |-> <<>>],
     avg_fitness_history |-> [bacteria |-> <<>>, phagocytes |-> <<>>],
     population_history |->
         [bacteria |-> <<>>, phagocytes |-> <<>>, glucose |-> <<>>],
     interaction_history |-> <<>>,
     generation_times |-> <<>>]

\* The statistics ledger reset() assigns
ResetStats ==
    [total_captures |-> 0,
     total_reproductions |-> 0,
     max_fitness_history |-> [bacteria |-> <<>>, phagocytes |-> <<>>],
     avg_fitness_history |-> [bacteria |-> <<>>, phagocytes |-> <<>>],
     population_history |-> [bacteria |-> <<>>, phagocytes |-> <<>>],
     interaction_history |-> <<>>,
     generation_times |-> <<>>]

\* What the random draws of the constructors range over
InitBacteriaX == Positions                 \* random.uniform(0, canvas_width)
InitPhagocyteX ==                          \* fixed_point spawn mode
    (PHAGOCYTE_SPAWN_POINT - PHAGOCYTE_SPAWN_RADIUS) ..
    (PHAGOCYTE_SPAWN_POINT + PHAGOCYTE_SPAWN_RADIUS)
InitGlucoseX == 0..Min(CANVAS_WIDTH, MaxGlucoseX)  \* Glucose(): random x
InitGlucoseEnergy == {GLUCOSE_MAX_ENERGY}
PhagocyteGenomes ==                        \* <<sensitivity, aggression>>
    { g \in Genes \X Genes : Abs(g[1] - g[2]) <= MaxGeneSpread }

\* initialize_population: the populations it can create, as
\* <<heap, bacteria, phagocytes>>; keep is the part of the heap that the
\* ranking cache still refers to
InitialPopulations(keep) ==
    LET N == INITIAL_BACTERIA_COUNT
        P == INITIAL_PHAGOCYTE_COUNT
        RECURSIVE Oids(_, _)
        Oids(k, used) ==
            IF k = 0 THEN <<>>
            ELSE LET o == FreshOid(used)
                 IN <<o>> \o Oids(k - 1, used \cup {o})
        ids == Oids(N, DOMAIN keep)
    IN { << [o \in DOMAIN keep \cup Range(ids) |->
               IF o \in DOMAIN keep THEN keep[o]
               ELSE LET i == CHOOSE j \in 1..N : ids[j] = o
                    IN NewBacteria(bx[i], bc[i], FALSE)],
            ids,
            [i \in 1..P |-> NewPhagocyte(px[i], pg[i][1], pg[i][2], FALSE)] >> :
         bx \in [1..N -> InitBacteriaX], bc \in [1..N -> Colors],
         px \in [1..P -> InitPhagocyteX],
         pg \in [1..P -> PhagocyteGenomes] }

\* initialize_glucose
InitialGlucose ==
    { [i \in 1..INITIAL_GLUCOSE_COUNT |-> NewGlucose(gx[i], ge[i])] :
        gx \in [1..INITIAL_GLUCOSE_COUNT -> InitGlucoseX],
        ge \in [1..INITIAL_GLUCOSE_COUNT -> InitGlucoseEnergy] }

EmptyHeap == [o \in {} |-> 0]

\* GeneticAlgorithmDEAP(): the rates, in hundredths
GeneticAlgorithmDEAP ==
    [mutation_rate |-> MUTATION_RATE, crossover_rate |-> CROSSOVER_RATE,
     mutation_strength |-> MUTATION_STRENGTH]

\* The parameter dicts update_parameters is called with
ParameterInputs == { [max_generations |-> MAX_GENERATIONS] }

\* Simulation(): the dataclass defaults and __post_init__
NewSimulations ==
    { [canvas_width |-> CANVAS_WIDTH,
       background_color |-> BACKGROUND_COLOR,
       max_generations |-> MAX_GENERATIONS,
       ranking_update_frequency |-> RANKING_UPDATE_FREQUENCY,
       heap |-> pop[1], bacteria |-> pop[2], phagocytes |-> pop[3],
       glucose |-> g,
       generation |-> 0, is_paused |-> FALSE, is_stopped |-> FALSE,
       ga |-> GeneticAlgorithmDEAP,
       stats |-> PostInitStats,
       bacteria_rankings |-> <<>>, last_ranking_update |-> 0] :
        pop \in InitialPopulations(EmptyHeap), g \in InitialGlucose }

\* pause()
pause(s) == [s EXCEPT !.is_paused = TRUE]

\* resume() as it would be if it also left the stopped state
ResumeClearsStop(s) == [s EXCEPT !.is_paused = FALSE, !.is_stopped = FALSE]

\* resume()
resume(s) == [s EXCEPT !.is_paused = FALSE]

\* stop()
stop(s) == [s EXCEPT !.is_stopped = TRUE, !.is_paused = TRUE]

\* reset() as it would be if it kept the generation counter
ResetKeepsGeneration(s) ==
    { [s EXCEPT !.is_paused = FALSE, !.is_stopped = FALSE,
                !.stats = ResetStats,
                !.bacteria_rankings = <<>>, !.last_ranking_update = 0,
                !.heap = pop[1], !.bacteria = pop[2],
                !.phagocytes = pop[3]] :
        pop \in InitialPopulations(EmptyHeap) }

\* reset(): the simulations it can leave.  The ranking cache is emptied, so
\* no bacteria object outlives the call; the glucose collection is kept.
reset(s) ==
    { [s EXCEPT !.generation = 0, !.is_paused = FALSE, !.is_stopped = FALSE,
                !.stats = ResetStats,
                !.bacteria_rankings = <<>>, !.last_ranking_update = 0,
                !.heap = pop[1], !.bacteria = pop[2],
                !.phagocytes = pop[3]] :
        pop \in InitialPopulations(EmptyHeap) }


\* ---------------- ranking and targeting ----------------
\* Stable insertion of a <<key, item>> pair; the sorts below are Python's
\* list.sort, which is stable also with reverse=True
RECURSIVE InsertAsc(_, _)
InsertAsc(q, p) ==
    IF q = <<>> THEN <<p>>
    ELSE IF Head(q)[1] <= p[1] THEN <<Head(q)>> \o InsertAsc(Tail(q), p)
                               ELSE <<p>> \o q

RECURSIVE InsertDesc(_, _)
InsertDesc(q, p) ==
    IF q = <<>> THEN <<p>>
    ELSE IF Head(q)[1] >= p[1] THEN <<Head(q)>> \o InsertDesc(Tail(q), p)
                               ELSE <<p>> \o q

\* A sort that leaves the list as it is
Unsorted(q) == q

RECURSIVE SortAsc(_)
SortAsc(q) ==
    IF q = <<>> THEN <<>>
    ELSE InsertAsc(SortAsc(SubSeq(q, 1, Len(q) - 1)), q[Len(q)])

RECURSIVE SortDesc(_)
SortDesc(q) ==
    IF q = <<>> THEN <<>>
    ELSE InsertDesc(SortDesc(SubSeq(q, 1, Len(q) - 1)), q[Len(q)])

Seconds(q) == [i \in 1..Len(q) |-> q[i][2]]

\* The normalised colour distance to the background, times COLOR_MAX
ColorDiff(color, background) == Abs(color - background)

\* A score that grows with the camouflage instead of the colour distance
CamouflageScore(b, background) ==
    (7 * Max(0, COLOR_MAX - Abs(b.color - background)) * MAX_ENERGY
       + 3 * b.energy * COLOR_MAX) * VULNERABILITY_AGE_SPAN

\* Bacteria.get_vulnerability_score, times
\* 10 * COLOR_MAX * MAX_ENERGY * VULNERABILITY_AGE_SPAN
VulnerabilityScale == 10 * COLOR_MAX * MAX_ENERGY * VULNERABILITY_AGE_SPAN
get_vulnerability_score(b, background) ==
    LET score ==
          VULNERABILITY_COLOR_WEIGHT * ColorDiff(b.color, background)
              * MAX_ENERGY * VULNERABILITY_AGE_SPAN
          + VULNERABILITY_ENERGY_WEIGHT * (MAX_ENERGY - b.energy)
              * COLOR_MAX * VULNERABILITY_AGE_SPAN
          + VULNERABILITY_AGE_WEIGHT * Min(VULNERABILITY_AGE_SPAN, b.age)
              * COLOR_MAX * MAX_ENERGY
    IN Min(VulnerabilityScale, Max(0, score))

\* Bacteria.calculate_fitness, times 10 * COLOR_MAX * MAX_ENERGY
FitnessScale == 10 * COLOR_MAX * MAX_ENERGY
BacteriaFitness(b, background) ==
    7 * Max(0, COLOR_MAX - ColorDiff(b.color, background)) * MAX_ENERGY
    + 3 * b.energy * COLOR_MAX

\* Phagocyte.detect_bacteria: color_diff > adjusted_threshold, both sides
\* multiplied by COLOR_MAX * 10 * GENE_MAX^2 * 2 * FitnessScale
detect_bacteria(p, b, background) ==
    LET base == 10 * GENE_MAX * GENE_MAX
                  - p.sens * (7 * GENE_MAX + 3 * p.aggr)
        camo == 2 * FitnessScale - b.fitness
    IN ColorDiff(b.color, background) * 10 * GENE_MAX * GENE_MAX
           * 2 * FitnessScale
       > COLOR_MAX * base * camo

\* A history entry stands for the float the code records: it is the
\* generation whose step recorded it
Stamp(s) == s.generation

SetKey(d, k, v) == (k :> v) @@ d

\* update_bacteria_rankings
update_bacteria_rankings(s) ==
    LET live == SelectSeq(s.bacteria, LAMBDA o : is_alive(s.heap[o]))
        vulnerability_scores ==
            SortDesc([i \in 1..Len(live) |->
                <<get_vulnerability_score(s.heap[live[i]],
                                          s.background_color), live[i]>>])
        old == IF "ranking_stats" \in DOMAIN s.stats
               THEN s.stats.ranking_stats
               ELSE [max_vulnerability |-> <<>>, avg_vulnerability |-> <<>>]
        rs == [max_vulnerability |->
                   AppendCapped(old.max_vulnerability, Stamp(s)),
               avg_vulnerability |->
                   AppendCapped(old.avg_vulnerability, Stamp(s))]
    IN [s EXCEPT !.bacteria_rankings = Seconds(vulnerability_scores),
                 !.last_ranking_update = s.generation,
                 !.stats = IF vulnerability_scores = <<>> THEN @
                           ELSE SetKey(@, "ranking_stats", rs)]

\* A refresh test that always asks for a new ranking
AlwaysDue(s) == TRUE

\* A refresh test that never asks for one
NeverDue(s) == FALSE

\* The refresh test of get_ranked_bacteria_in_range
RankingDue(s) ==
    s.generation - s.last_ranking_update >= s.ranking_update_frequency

\* get_ranked_bacteria_in_range: <<the simulation afterwards, the list>>
get_ranked_bacteria_in_range(s, p, max_distance) ==
    LET t == IF RankingDue(s) THEN update_bacteria_rankings(s) ELSE s
        hit == SelectSeq(t.bacteria_rankings, LAMBDA o :
                   /\ is_alive(t.heap[o])
                   /\ Abs(t.heap[o].x - p.x) < max_distance
                   /\ detect_bacteria(p, t.heap[o], t.background_color))
        ranked_in_range ==
            SortAsc([i \in 1..Len(hit) |->
                        <<Abs(t.heap[hit[i]].x - p.x), hit[i]>>])
    IN <<t, Seconds(ranked_in_range)>>

\* ---------------- movement ----------------
\* Agent.move: the agents it can leave (the random turn picks the
\* direction); size is the agent's radius
AgentMove(a, size, canvas_width) ==
    { LET new_x == a.x + d * MAX_SPEED
          x2 == IF new_x - size < 0 THEN size
                ELSE IF new_x + size > canvas_width
                     THEN canvas_width - size ELSE new_x
      IN [a EXCEPT !.x = x2, !.age = @ + 1,
                   !.energy = Max(0, Min(MAX_ENERGY, @ - ENERGY_LOSS))] :
      d \in {-1, 1} }

\* Phagocyte.move of phagocyte i: chase_bacteria turns the velocity only,
\* so a phagocyte with a target keeps position, age and energy
PhagocyteMove(s, i) ==
    LET p == s.phagocytes[i]
        r == get_ranked_bacteria_in_range(s, p, DETECTION_RADIUS)
        t == r[1]
    IN IF r[2] # <<>> THEN {t}
       ELSE { [t EXCEPT !.phagocytes[i] = q] :
                q \in AgentMove(p, PHAGOCYTE_SIZE, t.canvas_width) }

RECURSIVE MoveBacteriaFrom(_, _)
MoveBacteriaFrom(s, i) ==
    IF i > Len(s.bacteria) THEN {s}
    ELSE LET o == s.bacteria[i] IN
         IF ~is_alive(s.heap[o]) THEN MoveBacteriaFrom(s, i + 1)
         ELSE UNION { MoveBacteriaFrom([s EXCEPT !.heap[o] = b], i + 1) :
                        b \in AgentMove(s.heap[o], AGENT_SIZE,
                                        s.canvas_width) }

RECURSIVE MovePhagocytesFrom(_, _)
MovePhagocytesFrom(s, i) ==
    IF i > Len(s.phagocytes) THEN {s}
    ELSE IF ~is_alive(s.phagocytes[i]) THEN MovePhagocytesFrom(s, i + 1)
    ELSE UNION { MovePhagocytesFrom(t, i + 1) : t \in PhagocyteMove(s, i) }

\* move_agents
move_agents(s) ==
    UNION { MovePhagocytesFrom(t, 1) : t \in MoveBacteriaFrom(s, 1) }

\* update_reproduction_cooldowns
update_reproduction_cooldowns(s) ==
    [s EXCEPT !.heap = [o \in DOMAIN @ |->
        IF o \in Range(s.bacteria) /\ @[o].reproduction_cooldown > 0
        THEN [@[o] EXCEPT !.reproduction_cooldown = @ - 1] ELSE @[o]]]

\* ---------------- interactions ----------------
\* energy_gain of capture_bacteria: ENERGY_GAIN * (1.0 + 0.5 * aggression)
CaptureGain(p) == (ENERGY_GAIN * (2 * GENE_MAX + p.aggr)) \div (2 * GENE_MAX)

\* The sum without the min(200.0, ...) of capture_bacteria
UncappedEnergy(energy, gain) == energy + gain

\* The energy a phagocyte has after adding a capture's gain
CaptureEnergy(energy, gain) == Min(MAX_ENERGY, energy + gain)

\* A capture_bacteria that never captures
NeverCaptures(p, b) == <<p, FALSE>>

\* Phagocyte.capture_bacteria: <<the phagocyte afterwards, captured>>
capture_bacteria(p, b) ==
    IF Abs(b.x - p.x) < CAPTURE_RADIUS
    THEN <<[p EXCEPT !.energy = CaptureEnergy(@, CaptureGain(p))], TRUE>>
    ELSE <<p, FALSE>>

\* The capture loop of process_interactions: phagocyte i goes through todo,
\* the copy of self.bacteria taken when its turn began.
\* <<the simulation afterwards, captures>>
RECURSIVE CaptureLoop(_, _, _, _)
CaptureLoop(s, i, todo, captures) ==
    IF i > Len(s.phagocytes) THEN <<s, captures>>
    ELSE IF todo = <<>> \/ ~is_alive(s.phagocytes[i])
         THEN CaptureLoop(s, i + 1, s.bacteria, captures)
    ELSE LET o == Head(todo)
             r == capture_bacteria(s.phagocytes[i], s.heap[o])
         IN IF is_alive(s.heap[o]) /\ r[2]
            THEN CaptureLoop([s EXCEPT !.phagocytes[i] = r[1],
                                       !.bacteria = RemoveFirst(@, o)],
                             i, Tail(todo), captures + 1)
            ELSE CaptureLoop(s, i, Tail(todo), captures)

\* q without its j-th element
RemoveAt(q, j) == SubSeq(q, 1, j - 1) \o SubSeq(q, j + 1, Len(q))

\* A feeding that gives more than a tick costs
GenerousFeed(energy, gained) ==
    Min(MAX_ENERGY, energy + gained + ENERGY_LOSS)

\* The energy a bacterium has after feeding
FeedEnergy(energy, gained) == Min(MAX_ENERGY, energy + gained)

\* The feeding loop of process_interactions from bacterium i on.
\* raised: self.stats['glucose_consumed'] += 1 met a ledger without the key
RECURSIVE FeedLoop(_, _)
FeedLoop(s, i) ==
    IF i > Len(s.bacteria) THEN [sim |-> s, raised |-> FALSE]
    ELSE LET o == s.bacteria[i]
             b == s.heap[o]
             near == { j \in 1..Len(s.glucose) :
                         /\ is_active(s.glucose[j])
                         /\ Abs(b.x - s.glucose[j].x)
                                < AGENT_SIZE + GLUCOSE_RADIUS }
         IN IF ~is_alive(b) \/ near = {} THEN FeedLoop(s, i + 1)
            ELSE LET j == CHOOSE k \in near : \A m \in near : k <= m
                     r == consume(s.glucose[j],
                                  BACTERIA_GLUCOSE_CONSUMPTION_RATE)
                     fed == [s EXCEPT !.glucose[j] = r[1],
                                      !.heap[o].energy = FeedEnergy(@, r[2])]
                 IN IF "glucose_consumed" \notin DOMAIN s.stats
                    THEN [sim |-> fed, raised |-> TRUE]
                    ELSE LET counted ==
                               [fed EXCEPT !.stats.glucose_consumed = @ + 1]
                         IN FeedLoop(
                              IF is_active(r[1]) THEN counted
                              ELSE [counted EXCEPT !.glucose = RemoveAt(@, j)],
                              i + 1)

\* process_interactions: [sim, raised]
process_interactions(s) ==
    LET c == CaptureLoop(s, 1, s.bacteria, 0)
        f == FeedLoop(c[1], 1)
    IN IF f.raised THEN f
       ELSE [sim |-> [f.sim EXCEPT !.stats.total_captures = @ + c[2]],
             raised |-> FALSE]

\* manage_glucose: the simulations it can leave (the spawn is random)
manage_glucose(s) ==
    LET active_glucose == SelectSeq(s.glucose, is_active)
        kept == [s EXCEPT !.glucose = active_glucose]
    IN {kept} \cup
       IF /\ Len(active_glucose) < GLUCOSE_RESPAWN_THRESHOLD
          /\ Len(active_glucose) < MAX_GLUCOSE_COUNT
       THEN { [kept EXCEPT !.glucose = Append(@, NewGlucose(x, e))] :
                x \in InitGlucoseX, e \in InitGlucoseEnergy }
       ELSE {}

\* ---------------- fitness ----------------
\* Phagocyte.calculate_fitness as a fraction <<num, den>>
PhagocyteFitness(p, fits) ==
    LET n1 == 6 * (6 * p.sens + 4 * p.aggr) * MAX_ENERGY
                + 40 * GENE_MAX * p.energy
        d1 == 100 * GENE_MAX * MAX_ENERGY
        d2 == Len(fits) * FitnessScale * GENE_MAX * GENE_MAX
        n2 == Max(0, d2 - SeqSum(fits)
                            * (GENE_MAX * GENE_MAX - p.sens * p.aggr))
    IN IF fits = <<>> THEN <<n1, d1>>
       ELSE <<n1 * d2 + n2 * d1, 2 * d1 * d2>>

\* calculate_fitness
calculate_fitness(s) ==
    LET h == [o \in DOMAIN s.heap |->
                IF o \in Range(s.bacteria)
                THEN [s.heap[o] EXCEPT
                        !.fitness = BacteriaFitness(s.heap[o],
                                                    s.background_color)]
                ELSE s.heap[o]]
        fits == [i \in 1..Len(s.bacteria) |-> h[s.bacteria[i]].fitness]
    IN [s EXCEPT !.heap = h,
                 !.phagocytes = [i \in 1..Len(s.phagocytes) |->
                     [s.phagocytes[i] EXCEPT
                        !.fitness = PhagocyteFitness(s.phagocytes[i], fits)]]]

\* ---------------- reproduction ----------------
\* A bacterium that can always reproduce
AlwaysFertile(b) == TRUE

\* Bacteria.can_reproduce_asexually
can_reproduce_asexually(b) ==
    /\ b.energy >= BACTERIA_REPRODUCTION_ENERGY_THRESHOLD
    /\ b.reproduction_cooldown <= 0
    /\ is_alive(b)

\* Bacteria.reproduce_asexually: the <<parent afterwards, child>> pairs,
\* the child a list of none (the method returns None) or one
reproduce_asexually(b) ==
    IF ~can_reproduce_asexually(b) THEN { <<b, <<>> >> }
    ELSE
    { << [b EXCEPT !.energy = @ - BACTERIA_REPRODUCTION_ENERGY_COST,
                   !.reproduction_cooldown = BACTERIA_REPRODUCTION_COOLDOWN,
                   !.offspring_count = @ + 1],
         << [NewBacteria(Max(0, Min(b.x + d, CANVAS_WIDTH)), c, b.wide)
               EXCEPT !.energy = BACTERIA_REPRODUCTION_ENERGY_COST \div 2] >>
      >> :
      d \in {-1, 1}, c \in Colors }

\* The loop of asexual_reproduction over todo, the copy of self.bacteria;
\* born are the identities of new_bacteria
RECURSIVE ReproduceLoop(_, _, _)
ReproduceLoop(s, todo, born) ==
    IF todo = <<>>
    THEN { [s EXCEPT !.bacteria = @ \o born,
                     !.stats = IF born = <<>> THEN @
                               ELSE SetKey(@, "asexual_reproduction_count",
                                      (IF "asexual_reproduction_count"
                                            \in DOMAIN @
                                       THEN @.asexual_reproduction_count
                                       ELSE 0) + Len(born))] }
    ELSE LET o == Head(todo) IN
         IF ~can_reproduce_asexually(s.heap[o])
         THEN ReproduceLoop(s, Tail(todo), born)
         ELSE UNION {
                LET c == FreshOid(DOMAIN s.heap)
                    log == IF "asexual_reproductions" \in DOMAIN s.stats
                           THEN s.stats.asexual_reproductions ELSE <<>>
                IN ReproduceLoop(
                     [s EXCEPT
                        !.heap = (c :> r[2][1]) @@ [@ EXCEPT ![o] = r[1]],
                        !.stats = SetKey(
                            [@ EXCEPT !.total_reproductions = @ + 1],
                            "asexual_reproductions",
                            AppendCapped(log, Stamp(s)))],
                     Tail(todo), Append(born, c)) :
                r \in reproduce_asexually(s.heap[o]) }

\* asexual_reproduction
asexual_reproduction(s) == ReproduceLoop(s, s.bacteria, <<>>)

\* ---------------- coevolution ----------------
\* evolve_population pads a population below min_pop_size with
\* Genome.create_random individuals, whose genomes have the extra keys
PaddedSize(n) == Max(n, MIN_POP_SIZE)
PaddedWides(wides, n) == wides \cup (IF n < MIN_POP_SIZE THEN {TRUE} ELSE {})

\* _run_one_generation raises KeyError when _cx_uniform mates an individual
\* with an individual that lacks one of its keys
MateCanRaise(wides, size, cxpb) ==
    size >= 2 /\ cxpb > 0 /\ wides = {TRUE, FALSE}

\* What the genetic operators and the repositioning can produce
EvolvedBacteria(wides, width) ==
    { NewBacteria(x, c, w) : x \in 0..width, c \in Colors, w \in wides }
EvolvedPhagocytes(wides, width) ==
    { NewPhagocyte(x, g[1], g[2], w) :
        x \in 0..width, g \in PhagocyteGenomes, w \in wides }

\* coevolution_step: the simulations it can leave.  An exception of
\* evolve_population is caught here and leaves both populations as they were.
coevolution_step(s) ==
    LET bw == PaddedWides({s.heap[o].wide : o \in Range(s.bacteria)},
                          Len(s.bacteria))
        pw == PaddedWides({s.phagocytes[i].wide :
                             i \in 1..Len(s.phagocytes)}, Len(s.phagocytes))
        nb == PaddedSize(Len(s.bacteria))
        np == PaddedSize(Len(s.phagocytes))
        RECURSIVE Oids(_, _)
        Oids(k, used) ==
            IF k = 0 THEN <<>>
            ELSE LET o == FreshOid(used)
                 IN <<o>> \o Oids(k - 1, used \cup {o})
        ids == Oids(nb, DOMAIN s.heap)
        failed == IF \/ MateCanRaise(bw, nb, s.ga.crossover_rate)
                     \/ MateCanRaise(pw, np, (s.ga.crossover_rate * 8) \div 10)
                  THEN {s} ELSE {}
    IN failed \cup
       { [s EXCEPT !.heap = [o \in DOMAIN @ \cup Range(ids) |->
                               IF o \in DOMAIN @ THEN @[o]
                               ELSE newb[CHOOSE j \in 1..nb : ids[j] = o]],
                   !.bacteria = ids,
                   !.phagocytes = newp] :
           newb \in [1..nb -> EvolvedBacteria(bw, s.canvas_width)],
           newp \in [1..np -> EvolvedPhagocytes(pw, s.canvas_width)] }

\* ---------------- end of the tick ----------------
\* A clean_dead_agents that removes nobody
KeepsDead(s) == s

\* clean_dead_agents
clean_dead_agents(s) ==
    [s EXCEPT !.bacteria = SelectSeq(@, LAMBDA o : is_alive(s.heap[o])),
              !.phagocytes = SelectSeq(@, is_alive)]

\* clean_incorrect_agents: both collections hold only objects of their type
clean_incorrect_agents(s) == s

\* update_statistics
update_statistics(s) ==
    LET old == IF "vulnerability_stats" \in DOMAIN s.stats
               THEN s.stats.vulnerability_stats
               ELSE [avg |-> <<>>, max |-> <<>>, min |-> <<>>]
        vs == [avg |-> AppendCapped(old.avg, Stamp(s)),
               max |-> AppendCapped(old.max, Stamp(s)),
               min |-> AppendCapped(old.min, Stamp(s))]
        st == [s.stats EXCEPT
                 !.generation_times = AppendCapped(@, Stamp(s)),
                 !.max_fitness_history.bacteria = AppendCapped(@, Stamp(s)),
                 !.avg_fitness_history.bacteria = AppendCapped(@, Stamp(s)),
                 !.max_fitness_history.phagocytes = AppendCapped(@, Stamp(s)),
                 !.avg_fitness_history.phagocytes = AppendCapped(@, Stamp(s)),
                 !.population_history.bacteria =
                     AppendCapped(@, Len(s.bacteria)),
                 !.population_history.phagocytes =
                     AppendCapped(@, Len(s.phagocytes))]
    IN [s EXCEPT !.stats = IF s.bacteria = <<>> THEN st
                           ELSE SetKey(st, "vulnerability_stats", vs)]

\* f < g for fractions
FracLess(f, g) ==
    IF f[2] = g[2] THEN f[1] < g[1] ELSE f[1] * g[2] < g[1] * f[2]

\* list.sort(key=fitness, reverse=True) of the phagocytes (stable)
RECURSIVE InsertByFitness(_, _)
InsertByFitness(q, p) ==
    IF q = <<>> THEN <<p>>
    ELSE IF ~FracLess(Head(q).fitness, p.fitness)
         THEN <<Head(q)>> \o InsertByFitness(Tail(q), p)
         ELSE <<p>> \o q

RECURSIVE SortByFitness(_)
SortByFitness(q) ==
    IF q = <<>> THEN <<>>
    ELSE InsertByFitness(SortByFitness(SubSeq(q, 1, Len(q) - 1)), q[Len(q)])

\* A control_population_size that removes nobody
Uncontrolled(s) == s

\* control_population_size
control_population_size(s) ==
    [s EXCEPT
       !.bacteria =
          IF Len(@) > MAX_POPULATION
          THEN SubSeq(Seconds(SortDesc([i \in 1..Len(@) |->
                         <<s.heap[@[i]].fitness, @[i]>>])), 1, MAX_POPULATION)
          ELSE @,
       !.phagocytes =
          IF Len(@) > MAX_POPULATION \div 2
          THEN SubSeq(SortByFitness(@), 1, MAX_POPULATION \div 2)
          ELSE @]

\* Python frees a bacteria object that neither the collection nor the
\* ranking cache refers to
Collect(s) ==
    [s EXCEPT !.heap = [o \in Range(s.bacteria) \cup Range(s.bacteria_rankings)
                          |-> @[o]]]

\* ---------------- step() ----------------
\* A step() without its guard
StepNeverBlocked(s) == FALSE

\* The guard of step()
StepBlocked(s) == s.is_paused \/ s.is_stopped

\* A step() that leaves the generation counter alone
SameGeneration(g) == g

\* The generation counter after step()'s increment
NextGeneration(g) == g + 1

\* Whether step() runs coevolution_step in this generation
EpochDue(s) == s.generation % GENERATIONS_PER_EPOCH = 0

\* The stages of step() that follow process_interactions
AfterInteractions(s) ==
    LET grown == UNION { asexual_reproduction(calculate_fitness(g)) :
                           g \in manage_glucose(s) }
        evolved == UNION { IF EpochDue(a) THEN coevolution_step(a) ELSE {a} :
                             a \in grown }
    IN { control_population_size(update_statistics(
             clean_incorrect_agents(clean_dead_agents(e)))) : e \in evolved }

\* The try block of step(): [sim, raised], raised when a stage raised and
\* the except clause ended the tick
Pipeline(s) ==
    UNION { LET i == process_interactions(update_reproduction_cooldowns(m))
            IN IF i.raised THEN {i}
               ELSE { [sim |-> t, raised |-> FALSE] :
                        t \in AfterInteractions(i.sim) } :
            m \in move_agents(s) }

\* step(): the [sim, raised] outcomes
step(s) ==
    IF StepBlocked(s) THEN { [sim |-> s, raised |-> FALSE] }
    ELSE { [r EXCEPT !.sim = Collect(@)] :
             r \in Pipeline([s EXCEPT
                               !.generation = NextGeneration(@)]) }

\* ---------------- parameters and observation ----------------
\* update_parameters(parameters): parameters is a dict, here a record
update_parameters(s, parameters) ==
    LET has(k) == k \in DOMAIN parameters
        clamp(v) == Max(0, Min(100, v))
    IN [s EXCEPT
          !.canvas_width = IF has("canvas_width")
                           THEN parameters.canvas_width ELSE @,
          !.background_color = IF has("background_color")
                               THEN parameters.background_color ELSE @,
          !.max_generations = IF has("max_generations")
                              THEN parameters.max_generations ELSE @,
          !.ranking_update_frequency =
              IF has("ranking_update_frequency")
              THEN parameters.ranking_update_frequency ELSE @,
          !.ga.mutation_rate = IF has("mutation_rate")
                               THEN clamp(parameters.mutation_rate) ELSE @,
          !.ga.crossover_rate = IF has("crossover_rate")
                                THEN clamp(parameters.crossover_rate) ELSE @,
          !.ga.mutation_strength =
              IF has("mutation_strength")
              THEN Max(0, parameters.mutation_strength) ELSE @]

\* get_parameters()
get_parameters(s) ==
    [canvas_width |-> s.canvas_width,
     background_color |-> s.background_color,
     max_generations |-> s.max_generations,
     mutation_rate |-> s.ga.mutation_rate,
     crossover_rate |-> s.ga.crossover_rate,
     mutation_strength |-> s.ga.mutation_strength,
     ranking_update_frequency |-> s.ranking_update_frequency,
     current_generation |-> s.generation,
     bacteria_count |-> Len(s.bacteria),
     phagocyte_count |-> Len(s.phagocytes)]

\* The keys get_simulation_state reads with self.stats[...]
StateStatsKeys == {"total_captures", "total_reproductions", "glucose_consumed"}

\* get_simulation_state(): the dict it returns, or the exception it raises
get_simulation_state(s) ==
    IF ~(StateStatsKeys \subseteq DOMAIN s.stats) THEN [error |-> "KeyError"]
    ELSE [generation |-> s.generation,
          populations |-> [bacteria |-> Len(s.bacteria),
                           phagocytes |-> Len(s.phagocytes),
                           glucose |-> Len(s.glucose)],
          total_asexual |->
              IF "asexual_reproduction_count" \in DOMAIN s.stats
              THEN s.stats.asexual_reproduction_count ELSE 0,
          captures |-> s.stats.total_captures,
          reproductions |-> s.stats.total_reproductions,
          glucose_consumed |-> s.stats.glucose_consumed,
          parameters |-> get_parameters(s)]

\* ------------------------------------------------------------------------
\* The simulation driven through its public operations
\* ------------------------------------------------------------------------
\* ------------------------------------------------------------------------
\* Threads of the REST transport (api.py)
\* ------------------------------------------------------------------------
\* Flask serves each request in a thread of its own (threaded=True); every
\* start request creates a driver thread running run_simulation_loop
Clients == 1..NumClients
Drivers == (NumClients + 1)..(NumClients + MaxStarts)
Threads == Clients \cup Drivers

\* The routes that use the Simulation object
Endpoints ==
    {"start", "stop", "pause", "resume", "reset", "step", "state", "stats",
     "status", "get_parameters", "update_parameters"}

At(ep, at) == [ep |-> ep, at |-> at]
Idle == At("none", "idle")
Unborn == At("driver", "unborn")

\* The transport before any request
TransportInit ==
    /\ is_running = FALSE
    /\ simulation_thread = {}
    /\ simulation_lock = {}
    /\ pc = [t \in Threads |-> IF t \in Clients THEN Idle ELSE Unborn]
    /\ waited = [c \in Clients |-> 0]

Init ==
    /\ simulation \in NewSimulations
    /\ lastOp = "init"
    /\ lastExc = FALSE
    /\ TransportInit

Step ==
    /\ simulation.generation < MaxGen
    /\ \E r \in step(simulation) :
         /\ simulation' = r.sim
         /\ lastExc' = r.raised
    /\ lastOp' = "step"
    /\ UNCHANGED transport

Pause ==
    /\ simulation' = pause(simulation)
    /\ lastOp' = "pause"
    /\ lastExc' = FALSE
    /\ UNCHANGED transport

Resume ==
    /\ simulation' = resume(simulation)
    /\ lastOp' = "resume"
    /\ lastExc' = FALSE
    /\ UNCHANGED transport

Stop ==
    /\ simulation' = stop(simulation)
    /\ lastOp' = "stop"
    /\ lastExc' = FALSE
    /\ UNCHANGED transport

Reset ==
    /\ simulation' \in reset(simulation)
    /\ lastOp' = "reset"
    /\ lastExc' = FALSE
    /\ UNCHANGED transport

UpdateParameters ==
    /\ \E parameters \in ParameterInputs :
         simulation' = update_parameters(simulation, parameters)
    /\ lastOp' = "update_parameters"
    /\ lastExc' = FALSE
    /\ UNCHANGED transport

GetSimulationState ==
    /\ simulation' = simulation
    /\ lastOp' = "get_simulation_state"
    /\ lastExc' = ("error" \in DOMAIN get_simulation_state(simulation))
    /\ UNCHANGED transport

Next ==
    \/ Step
    \/ Pause
    \/ Resume
    \/ Stop
    \/ Reset
    \/ UpdateParameters
    \/ GetSimulationState

Spec == Init /\ [][Next]_vars

\* ------------------------------------------------------------------------
\* The REST transport (api.py) around one shared Simulation
\* ------------------------------------------------------------------------
\* simulation = None: no simulation has been started
None == [none |-> TRUE]

\* What the transport's threads use of a Simulation object: the generation,
\* the two flags, and whether the statistics ledger has the keys that
\* get_simulation_state reads
View(s) ==
    [generation |-> s.generation, is_paused |-> s.is_paused,
     is_stopped |-> s.is_stopped,
     complete |-> StateStatsKeys \subseteq DOMAIN s.stats]

\* Simulation() seen through View
NewViews == { View(s) : s \in NewSimulations }

\* reset() seen through View
ViewReset(v) ==
    [v EXCEPT !.generation = 0, !.is_paused = FALSE, !.is_stopped = FALSE,
              !.complete = StateStatsKeys \subseteq DOMAIN ResetStats]

\* step() seen through View: the guard and the increment; no stage adds or
\* removes a key that get_simulation_state reads
ViewStep(v) ==
    IF StepBlocked(v) THEN v
    ELSE [v EXCEPT !.generation = NextGeneration(@)]

\* get_simulation_state() seen through View: whether it raises
ViewStateRaises(v) == ~v.complete

\* with simulation_lock: entering and leaving
LockFree == simulation_lock = {}
Holds(t) == simulation_lock = {t}

\* ---- run_simulation_loop, thread d ----
\* while is_running and simulation: ... finally: is_running = False
DriverLoop(d) ==
    /\ pc[d] = At("driver", "loop")
    /\ IF is_running /\ simulation # None
       THEN /\ pc' = [pc EXCEPT ![d] = At("driver", "acquire")]
            /\ UNCHANGED is_running
       ELSE /\ pc' = [pc EXCEPT ![d] = At("driver", "done")]
            /\ is_running' = FALSE
    /\ UNCHANGED <<core, simulation_thread, simulation_lock, waited>>

\* with simulation_lock:
DriverAcquire(d) ==
    /\ pc[d] = At("driver", "acquire")
    /\ LockFree
    /\ simulation_lock' = {d}
    /\ pc' = [pc EXCEPT ![d] = At("driver", "locked")]
    /\ UNCHANGED <<core, is_running, simulation_thread, waited>>

\* if not simulation.is_paused: simulation.step() begins (its guard and the
\* increment of the generation); otherwise the lock is released
DriverLocked(d) ==
    /\ pc[d] = At("driver", "locked")
    /\ IF ~simulation.is_paused
       THEN /\ StepBlocked(simulation) \/ simulation.generation < MaxGen
            /\ simulation' = ViewStep(simulation)
            /\ pc' = [pc EXCEPT ![d] = At("driver", "stepping")]
            /\ waited' = [c \in Clients |->
                 IF /\ pc[c].at = "acquire"
                    /\ pc[c].ep \in {"stop", "reset"}
                    /\ ~StepBlocked(simulation)
                 THEN Min(waited[c] + 1, MaxOvertakes) ELSE waited[c]]
            /\ UNCHANGED simulation_lock
       ELSE /\ simulation_lock' = {}
            /\ pc' = [pc EXCEPT ![d] = At("driver", "loop")]
            /\ UNCHANGED <<simulation, waited>>
    /\ UNCHANGED <<lastOp, lastExc, is_running, simulation_thread>>

\* step() returns; get_simulation_state() and get_statistics() fill the
\* cache; the lock is released.  An exception of get_simulation_state leaves
\* the loop through except and finally.
DriverStepEnd(d) ==
    /\ pc[d] = At("driver", "stepping")
    /\ simulation_lock' = {}
    /\ IF ViewStateRaises(simulation)
       THEN /\ pc' = [pc EXCEPT ![d] = At("driver", "done")]
            /\ is_running' = FALSE
       ELSE /\ pc' = [pc EXCEPT ![d] = At("driver", "loop")]
            /\ UNCHANGED is_running
    /\ UNCHANGED <<core, simulation_thread, waited>>

\* ---- request handlers, thread c ----
\* A request arrives.  GET /api/parameters calls simulation.get_parameters()
\* at once; start takes the lock; the others answer 400/404 without a
\* simulation and take the lock with one.
Request(c, ep) ==
    /\ pc[c] = Idle
    /\ IF ep = "start" THEN \E d \in Drivers : pc[d] = Unborn
       ELSE simulation # None
    /\ pc' = [pc EXCEPT ![c] = IF ep = "get_parameters"
                               THEN At(ep, "unlocked_call")
                               ELSE At(ep, "acquire")]
    /\ waited' = [waited EXCEPT ![c] = 0]
    /\ UNCHANGED <<core, is_running, simulation_thread, simulation_lock>>

\* with simulation_lock:
ClientAcquire(c) ==
    /\ pc[c].at = "acquire"
    /\ LockFree
    /\ simulation_lock' = {c}
    /\ pc' = [pc EXCEPT ![c].at = "body"]
    /\ UNCHANGED <<core, is_running, simulation_thread, waited>>

\* The Simulation after the locked block of a handler other than start
BodyEffect(ep, v) ==
    CASE ep = "stop" -> stop(v)
      [] ep = "pause" -> pause(v)
      [] ep = "resume" -> resume(v)
      [] ep = "reset" -> ViewReset(v)
      [] ep = "step" -> ViewStep(v)
      [] OTHER -> v

\* The locked block of a handler other than start, and the release.
\* update_parameters goes on to call simulation.get_parameters().
ClientBody(c) ==
    /\ pc[c].at = "body" /\ pc[c].ep # "start"
    /\ pc[c].ep = "step" =>
          (StepBlocked(simulation) \/ simulation.generation < MaxGen)
    /\ simulation' = BodyEffect(pc[c].ep, simulation)
    /\ is_running' = CASE pc[c].ep = "stop" -> FALSE
                       [] pc[c].ep = "resume" -> TRUE
                       [] OTHER -> is_running
    /\ simulation_lock' = {}
    /\ pc' = [pc EXCEPT ![c] = IF pc[c].ep = "update_parameters"
                               THEN At("update_parameters", "unlocked_call")
                               ELSE Idle]
    /\ UNCHANGED <<lastOp, lastExc, simulation_thread, waited>>

\* start_simulation under the lock: a running simulation is stopped and its
\* thread joined
StartStop(c) ==
    /\ pc[c] = At("start", "body")
    /\ IF simulation # None /\ is_running
       THEN /\ simulation' = stop(simulation)
            /\ is_running' = FALSE
            /\ pc' = [pc EXCEPT ![c].at =
                        IF simulation_thread # {} THEN "join" ELSE "create"]
       ELSE /\ pc' = [pc EXCEPT ![c].at = "create"]
            /\ UNCHANGED <<simulation, is_running>>
    /\ UNCHANGED <<lastOp, lastExc, simulation_thread, simulation_lock, waited>>

\* simulation_thread.join(timeout=2) returns: the thread has ended or the
\* two seconds have passed
StartJoin(c) ==
    /\ pc[c] = At("start", "join")
    /\ pc' = [pc EXCEPT ![c].at = "create"]
    /\ UNCHANGED <<core, is_running, simulation_thread, simulation_lock, waited>>

\* simulation = Simulation(); is_running = True; the new thread is started;
\* the lock is released; the response calls simulation.get_parameters()
StartCreate(c) ==
    /\ pc[c] = At("start", "create")
    /\ \E d \in Drivers :
         /\ pc[d] = Unborn
         /\ \A e \in Drivers : pc[e] = Unborn => d <= e
         /\ simulation_thread' = {d}
         /\ pc' = [pc EXCEPT ![d] = At("driver", "loop"),
                             ![c] = At("start", "unlocked_call")]
    /\ simulation' \in NewViews
    /\ is_running' = TRUE
    /\ simulation_lock' = {}
    /\ UNCHANGED <<lastOp, lastExc, waited>>

\* simulation.get_parameters() called without the lock returns
UnlockedCall(c) ==
    /\ pc[c].at = "unlocked_call"
    /\ pc' = [pc EXCEPT ![c] = Idle]
    /\ UNCHANGED <<core, is_running, simulation_thread, simulation_lock, waited>>

RestInit ==
    /\ simulation = None
    /\ lastOp = "init"
    /\ lastExc = FALSE
    /\ TransportInit

RestNext ==
    \/ \E d \in Drivers : DriverLoop(d)
    \/ \E d \in Drivers : DriverAcquire(d)
    \/ \E d \in Drivers : DriverLocked(d)
    \/ \E d \in Drivers : DriverStepEnd(d)
    \/ \E c \in Clients, ep \in Endpoints : Request(c, ep)
    \/ \E c \in Clients : ClientAcquire(c)
    \/ \E c \in Clients : ClientBody(c)
    \/ \E c \in Clients : StartStop(c)
    \/ \E c \in Clients : StartJoin(c)
    \/ \E c \in Clients : StartCreate(c)
    \/ \E c \in Clients : UnlockedCall(c)

SpecRest == RestInit /\ [][RestNext]_vars

\* ------------------------------------------------------------------------
\* Movement of one agent with its velocity (agents.py)
\* ------------------------------------------------------------------------
\* The velocity is its x component in units of 1/VEL_UNIT.
\* Agent.normalize_velocity: a velocity other than zero gets magnitude 1
normalize_velocity(v) ==
    IF v > 0 THEN VEL_UNIT ELSE IF v < 0 THEN 0 - VEL_UNIT ELSE 0

\* The radius move() uses for an agent
AgentSize(a) == IF a.species = "bacteria" THEN AGENT_SIZE ELSE PHAGOCYTE_SIZE

\* Agent.move (and Bacteria.move, which adds only the drawing direction):
\* random turn, normalisation, step, bounce with renormalisation, ageing
\* and the energy clamp
move(a, canvas_width) ==
    { LET v1 == normalize_velocity(a.v + turn)
          new_x == a.x + (v1 * MAX_SPEED) \div VEL_UNIT
          size == AgentSize(a)
          left == new_x - size < 0
          right == ~left /\ new_x + size > canvas_width
          v2 == IF left THEN Abs(v1) ELSE IF right THEN 0 - Abs(v1) ELSE v1
          x2 == IF left THEN size
                ELSE IF right THEN canvas_width - size ELSE new_x
          v3 == IF left \/ right THEN normalize_velocity((v2 * 9) \div 10)
                ELSE v2
      IN [a EXCEPT !.x = x2, !.v = v3, !.age = @ + 1,
                   !.energy = Max(0, Min(MAX_ENERGY, @ - ENERGY_LOSS))] :
      turn \in (0 - TURN_RATE)..TURN_RATE }

\* Phagocyte.chase_bacteria towards a bacterium at bx: the velocity is
\* turned, normalised and multiplied by max_speed; the position is not
\* touched
chase_bacteria(p, bx) ==
    LET dx == bx - p.x
        dir == IF dx > 0 THEN 1 ELSE 0 - 1
        turn_rate == (TURN_RATE * (GENE_MAX + p.speed)) \div GENE_MAX
        vn == normalize_velocity(p.v + dir * turn_rate)
    IN IF dx = 0 THEN p
       ELSE [p EXCEPT !.v = (vn * MAX_SPEED
                               * (2 * GENE_MAX + p.speed + p.aggr))
                            \div (2 * GENE_MAX)]

\* The agents move() is called on: a live bacterium or phagocyte in an
\* arena of some width, with the unit velocity of Agent.__post_init__
MovingAgents ==
    { [species |-> sp, x |-> x, v |-> v, speed |-> g[1], aggr |-> g[2],
       energy |-> BASE_ENERGY, age |-> 0, canvas_width |-> w] :
        sp \in {"bacteria", "phagocyte"}, w \in 1..MaxMoveWidth,
        x \in 0..MaxMoveWidth, v \in {0 - VEL_UNIT, VEL_UNIT},
        g \in Genes \X Genes }

MoveInit ==
    /\ simulation \in { a \in MovingAgents :
                          /\ AgentSize(a) <= a.x
                          /\ a.x <= a.canvas_width - AgentSize(a) }
    /\ lastOp = "init"
    /\ lastExc = FALSE
    /\ TransportInit

\* Bacteria.move, as move_agents calls it
BacteriaMove ==
    /\ simulation.species = "bacteria" /\ is_alive(simulation)
    /\ simulation' \in move(simulation, simulation.canvas_width)
    /\ lastOp' = "move"
    /\ UNCHANGED <<lastExc, transport>>

\* Phagocyte.move when find_target_bacteria returns None
PhagocyteWander ==
    /\ simulation.species = "phagocyte" /\ is_alive(simulation)
    /\ simulation' \in move(simulation, simulation.canvas_width)
    /\ lastOp' = "move"
    /\ UNCHANGED <<lastExc, transport>>

\* Phagocyte.move when find_target_bacteria returns a bacterium
PhagocyteChase ==
    /\ simulation.species = "phagocyte" /\ is_alive(simulation)
    /\ \E bx \in 0..simulation.canvas_width :
         simulation' = chase_bacteria(simulation, bx)
    /\ lastOp' = "chase"
    /\ UNCHANGED <<lastExc, transport>>

MoveNext == BacteriaMove \/ PhagocyteWander \/ PhagocyteChase

SpecMove == MoveInit /\ [][MoveNext]_vars

\* ------------------------------------------------------------------------
\* Genetic operators on genomes (genetic_algorithm.py, agents.py, genome.py)
\* ------------------------------------------------------------------------
\* A genome is a dict: a function from its gene names to values, the
\* interval [0,1] being 0..GENE_MAX.  A child genome can carry a special
\* gene that its parent's mate lacks.
GenomeKeySets ==
    { {"color_gene"}, {"color_gene", "special_gene_1"} }
Genomes == UNION { [K -> Genes] : K \in GenomeKeySets }
Mutations == (0 - MaxMutation)..MaxMutation

\* The clamp that never happened
Unclamped(v) == v

\* max(0.0, min(1.0, value))
Clamp01(v) == Max(0, Min(GENE_MAX, v))

\* GeneticAlgorithmDEAP._mutate_gaussian; d[key] is the Gaussian draw of a
\* key that is mutated and 0 for a key that is not
mutate_gaussian(individual, d) ==
    [k \in DOMAIN individual |-> Clamp01(individual[k] + d[k])]

\* GeneticAlgorithmDEAP._cx_uniform; swap holds the keys of ind1 whose draw
\* is below indpb.  A key that ind2 lacks raises KeyError; ind1's keys are
\* visited in insertion order, the special gene last.
cx_uniform(ind1, ind2, swap) ==
    LET done == swap \cap DOMAIN ind2
    IN [ind1 |-> [k \in DOMAIN ind1 |->
                    IF k \in done THEN ind2[k] ELSE ind1[k]],
        ind2 |-> [k \in DOMAIN ind2 |->
                    IF k \in done THEN ind1[k] ELSE ind2[k]],
        raised |-> ~(swap \subseteq DOMAIN ind2)]

\* Bacteria._create_child_genome; c is the extra colour mutation and
\* special the value of a new special gene, or -1 when none is added
create_child_genome(genome, d, c, special) ==
    LET child == [k \in DOMAIN genome |->
                    IF k = "color_gene"
                    THEN Clamp01(Clamp01(genome[k] + d[k]) + c)
                    ELSE Clamp01(genome[k] + d[k])]
    IN IF special < 0 THEN child
       ELSE [k \in DOMAIN child \cup {"special_gene_1"} |->
               IF k = "special_gene_1" THEN special ELSE child[k]]

\* The child genome of Phagocyte.reproduce
reproduce(genome, d) == [k \in DOMAIN genome |-> Clamp01(genome[k] + d[k])]

\* Genome.mutate
GenomeMutate(genes, d) == [k \in DOMAIN genes |-> Clamp01(genes[k] + d[k])]

\* Genome.crossover: the two child genomes; swap holds the common keys
\* exchanged
GenomeCrossover(parent1, parent2, swap) ==
    LET common == DOMAIN parent1 \cap DOMAIN parent2
        c1 == [k \in DOMAIN parent1 \cup DOMAIN parent2 |->
                 IF k \in common
                 THEN (IF k \in swap THEN parent2[k] ELSE parent1[k])
                 ELSE IF k \in DOMAIN parent1 THEN parent1[k] ELSE parent2[k]]
        c2 == [k \in DOMAIN parent2 |->
                 IF k \in common /\ k \in swap THEN parent1[k] ELSE parent2[k]]
    IN [ind1 |-> c1, ind2 |-> c2]

\* Genome.set_gene
set_gene(genes, gene_name, value) ==
    [k \in DOMAIN genes \cup {gene_name} |->
        IF k = gene_name THEN Clamp01(value) ELSE genes[k]]

\* Two genomes with values in [0,1]; drawn records the random draws of the
\* operator applied last (observation only)
GenesInit ==
    /\ simulation \in { [ind1 |-> g1, ind2 |-> g2,
                         drawn |-> [k \in DOMAIN g1 |-> 0]] :
                          g1 \in Genomes, g2 \in Genomes }
    /\ lastOp = "init"
    /\ lastExc = FALSE
    /\ TransportInit

MutateGaussian ==
    \E d \in [DOMAIN simulation.ind1 -> Mutations] :
        /\ simulation' = [simulation EXCEPT
               !.ind1 = mutate_gaussian(@, d), !.drawn = d]
        /\ lastOp' = "_mutate_gaussian"
        /\ lastExc' = FALSE
        /\ UNCHANGED transport

CxUniform ==
    \E swap \in SUBSET DOMAIN simulation.ind1 :
        LET r == cx_uniform(simulation.ind1, simulation.ind2, swap)
        IN /\ simulation' = [ind1 |-> r.ind1, ind2 |-> r.ind2,
                             drawn |-> [k \in DOMAIN r.ind1 |-> 0]]
           /\ lastOp' = "_cx_uniform"
           /\ lastExc' = r.raised
           /\ UNCHANGED transport

CreateChildGenome ==
    \E d \in [DOMAIN simulation.ind1 -> Mutations], c \in {0 - 1, 0, 1},
       special \in {0 - 1} \cup Genes :
        /\ simulation' = [simulation EXCEPT
               !.ind2 = create_child_genome(simulation.ind1, d, c, special),
               !.drawn = d]
        /\ lastOp' = "_create_child_genome"
        /\ lastExc' = FALSE
        /\ UNCHANGED transport

Reproduce ==
    \E d \in [DOMAIN simulation.ind1 -> {0 - 1, 0, 1}] :
        /\ simulation' = [simulation EXCEPT
               !.ind2 = reproduce(simulation.ind1, d), !.drawn = d]
        /\ lastOp' = "reproduce"
        /\ lastExc' = FALSE
        /\ UNCHANGED transport

GenomeMutateOp ==
    \E d \in [DOMAIN simulation.ind1 -> Mutations] :
        /\ simulation' = [simulation EXCEPT
               !.ind1 = GenomeMutate(@, d), !.drawn = d]
        /\ lastOp' = "Genome.mutate"
        /\ lastExc' = FALSE
        /\ UNCHANGED transport

GenomeCrossoverOp ==
    \E swap \in SUBSET (DOMAIN simulation.ind1 \cap DOMAIN simulation.ind2) :
        LET r == GenomeCrossover(simulation.ind1, simulation.ind2, swap)
        IN /\ simulation' = [ind1 |-> r.ind1, ind2 |-> r.ind2,
                             drawn |-> [k \in DOMAIN r.ind1 |-> 0]]
           /\ lastOp' = "Genome.crossover"
           /\ lastExc' = FALSE
           /\ UNCHANGED transport

SetGene ==
    \E k \in DOMAIN simulation.ind1,
       value \in (0 - MaxMutation)..(GENE_MAX + MaxMutation) :
        /\ simulation' = [simulation EXCEPT
               !.ind1 = set_gene(@, k, value),
               !.drawn = [j \in DOMAIN simulation.ind1 |->
                            IF j = k THEN value ELSE 0]]
        /\ lastOp' = "set_gene"
        /\ lastExc' = FALSE
        /\ UNCHANGED transport

GenesNext ==
    \/ MutateGaussian
    \/ CxUniform
    \/ CreateChildGenome
    \/ Reproduce
    \/ GenomeMutateOp
    \/ GenomeCrossoverOp
    \/ SetGene

SpecGenes == GenesInit /\ [][GenesNext]_vars

\* ------------------------------------------------------------------------
\* The genetic algorithm object and its DEAP toolboxes
\* (genetic_algorithm.py): update_parameters between evolve_population calls.
\* ------------------------------------------------------------------------
\* toolbox.register("mutate", self._mutate_gaussian, mu=0, sigma=...,
\* indpb=...) binds the values sigma and indpb have when the toolbox is
\* created, in __init__.  Rates are in hundredths; the phagocyte toolbox
\* keeps its factors 1.5 and 1.2 as 15 and 12 (thousandths).
create_bacteria_toolbox(ga) ==
    [sigma |-> ga.mutation_strength, indpb |-> ga.mutation_rate]
create_phagocyte_toolbox(ga) ==
    [sigma |-> 15 * ga.mutation_strength, indpb |-> 12 * ga.mutation_rate]

\* The probabilities and the sigma that one evolve_population call runs its
\* operators with: cxpb and mutpb are read from the object at the call
\* (self.crossover_rate, self.mutation_rate; times 0.8 and 1.2 for the
\* phagocytes), sigma and indpb of the mutation are those of the toolbox
OperatorsApplied(ga, bacteria_toolbox, phagocyte_toolbox) ==
    [bacteria |-> [cxpb |-> ga.crossover_rate, mutpb |-> ga.mutation_rate,
                   sigma |-> bacteria_toolbox.sigma,
                   indpb |-> bacteria_toolbox.indpb],
     phagocytes |-> [cxpb |-> 8 * ga.crossover_rate,
                     mutpb |-> 12 * ga.mutation_rate,
                     sigma |-> phagocyte_toolbox.sigma,
                     indpb |-> phagocyte_toolbox.indpb]]

\* The values a client sends for a rate or a strength, in and out of range
GaValues == {0 - 50, 0, 50, 150}

\* The parameter dicts with genetic-algorithm keys
GaParameterInputs ==
    UNION { [K -> GaValues] :
              K \in SUBSET {"mutation_rate", "crossover_rate",
                            "mutation_strength"} \ {{}} }

\* A new simulation with its genetic algorithm; applied holds the operator
\* settings of the last evolve_population call, if there was one
GaInit ==
    /\ \E s \in NewSimulations :
          simulation = [sim |-> s,
                        bacteria_toolbox |-> create_bacteria_toolbox(s.ga),
                        phagocyte_toolbox |-> create_phagocyte_toolbox(s.ga),
                        applied |-> <<>>]
    /\ lastOp = "init"
    /\ lastExc = FALSE
    /\ TransportInit

\* Simulation.update_parameters with genetic-algorithm keys: it calls
\* self.ga.update_parameters, which assigns the attributes and leaves the
\* toolboxes alone
GaUpdateParameters ==
    /\ \E parameters \in GaParameterInputs :
          simulation' = [simulation EXCEPT
              !.sim = update_parameters(@, parameters)]
    /\ lastOp' = "update_parameters"
    /\ lastExc' = FALSE
    /\ UNCHANGED transport

\* evolve_population, as a coevolution epoch calls it
GaEvolvePopulation ==
    /\ simulation' = [simulation EXCEPT
          !.applied = <<OperatorsApplied(simulation.sim.ga,
                                         simulation.bacteria_toolbox,
                                         simulation.phagocyte_toolbox)>>]
    /\ lastOp' = "evolve_population"
    /\ lastExc' = FALSE
    /\ UNCHANGED transport

GaNext ==
    \/ GaUpdateParameters
    \/ GaEvolvePopulation

SpecGa == GaInit /\ [][GaNext]_vars

\* ------------------------------------------------------------------------
\* Single stages of step() applied to a simulation (simulation.py)
\* ------------------------------------------------------------------------
\* The state is a call of one stage: the simulation before it, the
\* simulation as it is now, whether the stage has run, its max_distance
\* argument and the list it returned (for the stages that have them).
StageCall(stage, s, max_distance) ==
    [stage |-> stage, before |-> s, sim |-> s, done |-> FALSE,
     max_distance |-> max_distance, result |-> <<>>]

\* A constructed simulation whose populations the inputs replace
StageBase == CHOOSE s \in NewSimulations : TRUE

\* A bacterium and a phagocyte in the middle of a run
StageBacteria(x, color, energy, cooldown) ==
    [NewBacteria(x, color, FALSE) EXCEPT
        !.energy = energy, !.reproduction_cooldown = cooldown]
StagePhagocyte(x, aggr, energy) ==
    [NewPhagocyte(x, 0, aggr, FALSE) EXCEPT !.energy = energy]

\* The simulations process_interactions is applied to: live and dead
\* agents of both kinds, near and far, a glucose with one or more
\* feedings left, with either statistics ledger
InteractionInputs ==
    { [StageBase EXCEPT
          !.heap = [o \in 1..MaxStageAgents |->
                      StageBacteria(bx[o], 0, be[o], 0)],
          !.bacteria = [o \in 1..MaxStageAgents |-> o],
          !.phagocytes = [i \in 1..MaxStageAgents |->
                            StagePhagocyte(px[i], pa[i], pe[i])],
          !.glucose = [i \in DOMAIN @ |-> NewGlucose(@[i].x, ge)],
          !.stats = st] :
        ge \in 1..GLUCOSE_MAX_ENERGY,
        bx \in [1..MaxStageAgents -> Positions],
        be \in [1..MaxStageAgents -> {0, BASE_ENERGY}],
        px \in [1..MaxStageAgents -> Positions],
        pa \in [1..MaxStageAgents -> Genes],
        pe \in [1..MaxStageAgents -> {0, BASE_ENERGY, MAX_ENERGY - 1}],
        st \in {PostInitStats, ResetStats} }

\* The ranking caches a simulation can hold: bacteria in any order (the
\* order of an earlier generation), without repetition
RankingCaches ==
    { q \in UNION { [1..n -> 1..MaxStageAgents] : n \in 0..MaxStageAgents } :
        \A i \in 1..Len(q) : \A j \in 1..Len(q) : q[i] = q[j] => i = j }

\* The generation, the generation of the last ranking and the ranking a
\* simulation can hold: no ranking yet, or the ranking of generation
\* RANKING_UPDATE_FREQUENCY, up to date or due
RankingStates ==
    { <<g, 0, <<>> >> : g \in 1..RANKING_UPDATE_FREQUENCY }
    \cup { <<RANKING_UPDATE_FREQUENCY + g, RANKING_UPDATE_FREQUENCY, q>> :
             g \in {1, RANKING_UPDATE_FREQUENCY}, q \in RankingCaches }

\* A simulation a range query is made on: one phagocyte at px with genes
\* pg, bacteria at bx with colours bc and energies be (live or dead) and
\* the fitness calculate_fitness gave them, the first n of them still in
\* the collection, and the ranking state c
QueryInput(bx, bc, be, n, px, pg, c) ==
    [StageBase EXCEPT
        !.heap = [o \in 1..MaxStageAgents |->
                    LET b == StageBacteria(bx[o], bc[o], be[o], 0)
                    IN [b EXCEPT !.fitness =
                            BacteriaFitness(b, BACKGROUND_COLOR)]],
        !.bacteria = [o \in 1..n |-> o],
        !.phagocytes = <<[StagePhagocyte(px, pg[2], BASE_ENERGY)
                             EXCEPT !.sens = pg[1]]>>,
        !.generation = c[1], !.last_ranking_update = c[2],
        !.bacteria_rankings = c[3]]

\* A simulation whose bacteria reproduce: energies around the reproduction
\* threshold, with and without cooldown, the first one young or too old,
\* and the log of the reproductions of earlier generations
ReproductionInput(bx, be, cd, age, log) ==
    [StageBase EXCEPT
        !.generation = MAX_HISTORY + 1,
        !.stats = IF log = <<>> THEN @
                  ELSE SetKey(@, "asexual_reproductions", log),
        !.heap = [o \in 1..MaxStageAgents |->
                    [StageBacteria(bx[o], 0, be[o], cd[o]) EXCEPT
                        !.age = IF o = 1 THEN age ELSE 0]],
        !.bacteria = [o \in 1..MaxStageAgents |-> o],
        !.phagocytes = <<>>]

\* A simulation control_population_size is called on: nb bacteria and np
\* phagocytes, below, at and above the limits, with fitness fb and fp
PopulationInput(nb, np, fb, fp) ==
    [StageBase EXCEPT
        !.heap = [o \in 1..nb |->
                    [StageBacteria(0, 0, BASE_ENERGY, 0)
                        EXCEPT !.fitness = fb[o] * FitnessScale]],
        !.bacteria = [o \in 1..nb |-> o],
        !.phagocytes = [i \in 1..np |->
                          [StagePhagocyte(0, 0, BASE_ENERGY)
                              EXCEPT !.fitness = <<fp[i], 1>>]]]

\* A simulation step() is called on once, at generation g: nb bacteria of
\* which the first nd are about to starve, and np phagocytes
TickInput(nb, nd, np, g) ==
    LET s == PopulationInput(nb, np, [o \in 1..nb |-> 1], [i \in 1..np |-> 1])
    IN [s EXCEPT !.heap = [o \in DOMAIN @ |->
                             IF o <= nd THEN [@[o] EXCEPT !.energy = ENERGY_LOSS]
                             ELSE @[o]],
                 !.generation = g]

\* Phagocyte.find_target_bacteria: <<the simulation afterwards, the target
\* as a list of none or one>>
find_target_bacteria(s, p) ==
    LET r == get_ranked_bacteria_in_range(s, p, DETECTION_RADIUS)
    IN <<r[1], IF r[2] = <<>> THEN <<>> ELSE <<Head(r[2])>> >>

StagesInit ==
    /\ \/ \E s \in InteractionInputs :
             simulation = StageCall("process_interactions", s, 0)
       \/ \E bx \in [1..MaxStageAgents -> Positions],
             bc \in [1..MaxStageAgents -> Colors],
             be \in [1..MaxStageAgents -> {0, BASE_ENERGY \div 2, BASE_ENERGY}],
             n \in 1..MaxStageAgents, px \in Positions,
             pg \in Genes \X Genes, c \in RankingStates :
             LET s == QueryInput(bx, bc, be, n, px, pg, c)
             IN \/ \E m \in 1..DETECTION_RADIUS :
                     simulation =
                         StageCall("get_ranked_bacteria_in_range", s, m)
                \/ simulation = StageCall("find_target_bacteria", s,
                                          DETECTION_RADIUS)
       \/ \E bx \in [1..MaxStageAgents -> Positions],
             be \in [1..MaxStageAgents ->
                       {BACTERIA_REPRODUCTION_ENERGY_THRESHOLD - 1,
                        BACTERIA_REPRODUCTION_ENERGY_THRESHOLD, MAX_ENERGY}],
             cd \in [1..MaxStageAgents -> 0..1], age \in {0, MAX_AGE},
             n \in 0..MAX_HISTORY :
             LET s == ReproductionInput(bx, be, cd, age, [i \in 1..n |-> i])
             IN \/ simulation = StageCall("reproduce_asexually", s, 0)
                \/ simulation = StageCall("asexual_reproduction", s, 0)
       \/ \E nb \in 0..(MAX_POPULATION + MaxOverPopulation),
             np \in 0..(MAX_POPULATION \div 2 + MaxOverPopulation) :
             \E fb \in [1..nb -> 0..1], fp \in [1..np -> 0..1] :
                simulation = StageCall("control_population_size",
                                       PopulationInput(nb, np, fb, fp), 0)
       \/ \E nb \in 0..(MAX_POPULATION + 1),
             np \in 0..(MAX_POPULATION \div 2 + 1) :
             \E nd \in 0..Min(nb, 1) :
                simulation = StageCall("step", TickInput(nb, nd, np, 0), 0)
       \/ \E nb \in 0..MaxStageAgents, np \in 0..1 :
             \E nd \in 0..Min(nb, 1) :
                simulation = StageCall("step",
                    TickInput(nb, nd, np, GENERATIONS_PER_EPOCH - 1), 0)
    /\ lastOp = "init"
    /\ lastExc = FALSE
    /\ TransportInit

\* process_interactions()
CallProcessInteractions ==
    /\ simulation.stage = "process_interactions" /\ ~simulation.done
    /\ LET r == process_interactions(simulation.sim)
       IN /\ simulation' = [simulation EXCEPT !.sim = r.sim, !.done = TRUE]
          /\ lastExc' = r.raised
    /\ lastOp' = "process_interactions"
    /\ UNCHANGED transport

\* get_ranked_bacteria_in_range(phagocyte, max_distance)
CallGetRankedBacteriaInRange ==
    /\ simulation.stage = "get_ranked_bacteria_in_range" /\ ~simulation.done
    /\ LET r == get_ranked_bacteria_in_range(simulation.sim,
                     simulation.sim.phagocytes[1], simulation.max_distance)
       IN simulation' = [simulation EXCEPT
              !.sim = r[1], !.result = r[2], !.done = TRUE]
    /\ lastOp' = "get_ranked_bacteria_in_range"
    /\ UNCHANGED <<lastExc, transport>>

\* phagocyte.find_target_bacteria(simulation)
CallFindTargetBacteria ==
    /\ simulation.stage = "find_target_bacteria" /\ ~simulation.done
    /\ LET r == find_target_bacteria(simulation.sim,
                                     simulation.sim.phagocytes[1])
       IN simulation' = [simulation EXCEPT
              !.sim = r[1], !.result = r[2], !.done = TRUE]
    /\ lastOp' = "find_target_bacteria"
    /\ UNCHANGED <<lastExc, transport>>

\* bacteria[0].reproduce_asexually(): the child, if any, is returned and
\* not yet part of the collection
CallReproduceAsexually ==
    /\ simulation.stage = "reproduce_asexually" /\ ~simulation.done
    /\ \E r \in reproduce_asexually(simulation.sim.heap[1]) :
          LET c == FreshOid(DOMAIN simulation.sim.heap)
          IN simulation' = [simulation EXCEPT
                 !.sim.heap = IF r[2] = <<>> THEN [@ EXCEPT ![1] = r[1]]
                              ELSE (c :> r[2][1]) @@ [@ EXCEPT ![1] = r[1]],
                 !.result = IF r[2] = <<>> THEN <<>> ELSE <<c>>,
                 !.done = TRUE]
    /\ lastOp' = "reproduce_asexually"
    /\ UNCHANGED <<lastExc, transport>>

\* asexual_reproduction()
CallAsexualReproduction ==
    /\ simulation.stage = "asexual_reproduction" /\ ~simulation.done
    /\ \E t \in asexual_reproduction(simulation.sim) :
          simulation' = [simulation EXCEPT !.sim = t, !.done = TRUE]
    /\ lastOp' = "asexual_reproduction"
    /\ UNCHANGED <<lastExc, transport>>

\* control_population_size()
CallControlPopulationSize ==
    /\ simulation.stage = "control_population_size" /\ ~simulation.done
    /\ simulation' = [simulation EXCEPT
           !.sim = control_population_size(simulation.sim), !.done = TRUE]
    /\ lastOp' = "control_population_size"
    /\ UNCHANGED <<lastExc, transport>>

\* step(), once
CallStepOnce ==
    /\ simulation.stage = "step" /\ ~simulation.done
    /\ \E r \in step(simulation.sim) :
          /\ simulation' = [simulation EXCEPT !.sim = r.sim, !.done = TRUE]
          /\ lastExc' = r.raised
    /\ lastOp' = "step"
    /\ UNCHANGED transport

StagesNext ==
    \/ CallProcessInteractions
    \/ CallGetRankedBacteriaInRange
    \/ CallFindTargetBacteria
    \/ CallReproduceAsexually
    \/ CallAsexualReproduction
    \/ CallControlPopulationSize
    \/ CallStepOnce

SpecStages == StagesInit /\ [][StagesNext]_vars

\* ------------------------------------------------------------------------
\* Whole steps, one after another, of simulations with a ranking frequency
\* that update_parameters has set.
\* ------------------------------------------------------------------------
\* A simulation step() is called on: np phagocytes, every agent alive,
\* bacteria the phagocytes can detect at positions bx, no
\* ranking yet, ranking_update_frequency f; the first bacterium has a
\* special gene (from _create_child_genome) when w
StepInput(bx, w, np, px, f) ==
    [StageBase EXCEPT
        !.heap = [o \in 1..MaxStageAgents |->
                    LET b == StageBacteria(bx[o], 0, BASE_ENERGY, 0)
                    IN [b EXCEPT !.fitness =
                            BacteriaFitness(b, BACKGROUND_COLOR),
                                 !.wide = (o = 1 /\ w)]],
        !.bacteria = [o \in 1..MaxStageAgents |-> o],
        !.phagocytes = [i \in 1..np |->
                          [StagePhagocyte(px[i], 0, BASE_ENERGY)
                              EXCEPT !.sens = GENE_MAX]],
        !.ranking_update_frequency = f]

StepsInit ==
    /\ \E bx \in [1..MaxStageAgents -> Positions],
          w \in BOOLEAN, np \in 0..MaxStageAgents,
          px \in [1..MaxStageAgents -> Positions],
          f \in 0..RANKING_UPDATE_FREQUENCY :
          simulation = StageCall("step", StepInput(bx, w, np, px, f), 0)
    /\ lastOp = "init"
    /\ lastExc = FALSE
    /\ TransportInit

\* step(), one call after another: before is the simulation the last call
\* started from
CallStep ==
    /\ simulation.sim.generation < MaxStageGeneration
    /\ \E r \in step(simulation.sim) :
          /\ simulation' = [simulation EXCEPT
                 !.before = simulation.sim, !.sim = r.sim, !.done = TRUE]
          /\ lastExc' = r.raised
    /\ lastOp' = "step"
    /\ UNCHANGED transport

StepsNext ==
    \/ CallStep

SpecSteps == StepsInit /\ [][StepsNext]_vars

\* ------------------------------------------------------------------------
\* Agent ids (agents.py): the id strings of the agents of both collections
\* across asexual_reproduction and coevolution_step.
\* ------------------------------------------------------------------------
\* "bacteria_<n>" and "phagocyte_<n>" are modelled by n.  An agent created
\* without an id draws n = random.randint(RANDOM_ID_MIN, 9999)
RANDOM_ID_MIN == 1000
RandomIds == RANDOM_ID_MIN..(RANDOM_ID_MIN + MaxRandomIds - 1)

\* The ids of populations of n that hold no id twice: those of
\* initialize_population (bacteria_0, bacteria_1, ...) and random ones
UniqueIds(n) ==
    { [i \in 1..n |-> i - 1], [i \in 1..n |-> RANDOM_ID_MIN + i - 1] }

\* A call of one stage with the ids of the agents: ids maps each bacterium
\* object to its id, pids lists the ids of the phagocytes
IdCall(stage, s, ids, pids) ==
    [stage |-> stage, before |-> s, sim |-> s, done |-> FALSE,
     ids |-> ids, pids |-> pids]

\* The simulation the stages are applied to
IdInput(bx, be) ==
    [StageBase EXCEPT
        !.heap = [o \in 1..MaxStageAgents |->
                    StageBacteria(bx[o], 0, be[o], 0)],
        !.bacteria = [o \in 1..MaxStageAgents |-> o],
        !.phagocytes = [i \in 1..MaxStageAgents |->
                          StagePhagocyte(0, 0, BASE_ENERGY)]]

IdsInit ==
    /\ \E bx \in [1..MaxStageAgents -> Positions],
          be \in [1..MaxStageAgents -> {BASE_ENERGY, MAX_ENERGY}],
          ids \in UniqueIds(MaxStageAgents),
          pids \in UniqueIds(MaxStageAgents) :
          \/ simulation = IdCall("asexual_reproduction",
                                 IdInput(bx, be), ids, pids)
          \/ /\ bx = [o \in 1..MaxStageAgents |-> 0]
             /\ simulation = IdCall("coevolution_step",
                                    IdInput(bx, be), ids, pids)
    /\ lastOp = "init"
    /\ lastExc = FALSE
    /\ TransportInit

\* asexual_reproduction(): every child is a Bacteria created without an id
IdsAsexualReproduction ==
    /\ simulation.stage = "asexual_reproduction" /\ ~simulation.done
    /\ \E t \in asexual_reproduction(simulation.sim) :
          \E f \in [DOMAIN t.heap \ DOMAIN simulation.sim.heap -> RandomIds] :
             simulation' = [simulation EXCEPT
                 !.sim = t, !.ids = f @@ @, !.done = TRUE]
    /\ lastOp' = "asexual_reproduction"
    /\ UNCHANGED <<lastExc, transport>>

\* coevolution_step(): evolve_population creates every new agent without
\* an id; when it raises, the populations and their ids stay
IdsCoevolutionStep ==
    /\ simulation.stage = "coevolution_step" /\ ~simulation.done
    /\ \E t \in coevolution_step(simulation.sim) :
          LET new == DOMAIN t.heap \ DOMAIN simulation.sim.heap
          IN \E f \in [new -> RandomIds] :
             \E g \in [1..Len(t.phagocytes) -> RandomIds] :
                simulation' = [simulation EXCEPT
                    !.sim = t, !.ids = f @@ @,
                    !.pids = IF new = {} THEN @ ELSE g,
                    !.done = TRUE]
    /\ lastOp' = "coevolution_step"
    /\ UNCHANGED <<lastExc, transport>>

IdsNext ==
    \/ IdsAsexualReproduction
    \/ IdsCoevolutionStep

SpecIds == IdsInit /\ [][IdsNext]_vars

\* ------------------------------------------------------------------------
\* Single calls of the scoring and detection functions of the agents
\* (agents.py) on two bacteria that differ in one respect.
\* ------------------------------------------------------------------------
\* The values a bacterium's fitness is drawn from: 0.0 (a new agent), and
\* up to the 1.0 of calculate_fitness, in quarters
FitnessLevels == { (k * FitnessScale) \div 4 : k \in 0..4 }

\* A call of function fn for phagocyte p on bacteria a and b, with the
\* values ra and rb it returned for them (for consume: on glucose a with
\* amount b)
FunctionCall(fn, p, a, b, background) ==
    [fn |-> fn, p |-> p, a |-> a, b |-> b, background |-> background,
     ra |-> 0, rb |-> 0, done |-> FALSE]

CallsInit ==
    /\ \/ \E ca \in Colors, cb \in Colors, background \in Colors,
             e \in {0, BASE_ENERGY \div 2, BASE_ENERGY,
                    BACTERIA_REPRODUCTION_ENERGY_THRESHOLD, MAX_ENERGY},
             age \in {0, VULNERABILITY_AGE_SPAN \div 2,
                      VULNERABILITY_AGE_SPAN, MAX_AGE - 1} :
             simulation = FunctionCall("get_vulnerability_score",
                 NewPhagocyte(0, 0, 0, FALSE),
                 [StageBacteria(0, ca, e, 0) EXCEPT !.age = age],
                 [StageBacteria(0, cb, e, 0) EXCEPT !.age = age],
                 background)
       \/ \E c \in Colors, background \in Colors, g \in Genes \X Genes,
             fa \in FitnessLevels, fb \in FitnessLevels :
             /\ fa <= fb
             /\ simulation = FunctionCall("detect_bacteria",
                    NewPhagocyte(0, g[1], g[2], FALSE),
                    [StageBacteria(0, c, BASE_ENERGY, 0) EXCEPT !.fitness = fa],
                    [StageBacteria(0, c, BASE_ENERGY, 0) EXCEPT !.fitness = fb],
                    background)
       \/ \E e \in 1..GLUCOSE_MAX_ENERGY,
             amount \in 0..(GLUCOSE_MAX_ENERGY + 1) :
             simulation = FunctionCall("consume",
                 NewPhagocyte(0, 0, 0, FALSE), NewGlucose(0, e), amount, 0)
    /\ lastOp = "init"
    /\ lastExc = FALSE
    /\ TransportInit

\* a.get_vulnerability_score(background), b.get_vulnerability_score(...)
CallGetVulnerabilityScore ==
    /\ simulation.fn = "get_vulnerability_score" /\ ~simulation.done
    /\ simulation' = [simulation EXCEPT
           !.ra = get_vulnerability_score(simulation.a, simulation.background),
           !.rb = get_vulnerability_score(simulation.b, simulation.background),
           !.done = TRUE]
    /\ lastOp' = "get_vulnerability_score"
    /\ UNCHANGED <<lastExc, transport>>

\* p.detect_bacteria(a, background), p.detect_bacteria(b, background)
CallDetectBacteria ==
    /\ simulation.fn = "detect_bacteria" /\ ~simulation.done
    /\ simulation' = [simulation EXCEPT
           !.ra = detect_bacteria(simulation.p, simulation.a,
                                  simulation.background),
           !.rb = detect_bacteria(simulation.p, simulation.b,
                                  simulation.background),
           !.done = TRUE]
    /\ lastOp' = "detect_bacteria"
    /\ UNCHANGED <<lastExc, transport>>

\* glucose.consume(amount), call after call on the same glucose a with
\* the same amount b; ra is the energy the last call gave
CallConsume ==
    /\ simulation.fn = "consume"
    /\ LET r == consume(simulation.a, simulation.b)
       IN simulation' = [simulation EXCEPT
              !.a = r[1], !.ra = r[2], !.done = TRUE]
    /\ lastOp' = "consume"
    /\ UNCHANGED <<lastExc, transport>>

CallsNext ==
    \/ CallGetVulnerabilityScore
    \/ CallConsume
    \/ CallDetectBacteria

SpecCalls == CallsInit /\ [][CallsNext]_vars

\* ------------------------------------------------------------------------
\* Properties
\* ------------------------------------------------------------------------
\* The agents of a simulation: both collections with every agent's fields
Agents(s) ==
    <<[i \in 1..Len(s.bacteria) |-> s.heap[s.bacteria[i]]], s.phagocytes>>

\* C1: a step() called while is_paused or is_stopped leaves the whole
\* simulation (generation, collections, agents, statistics, ranking cache)
\* as it was.
C1_BlockedStepChangesNothing ==
    [][(lastOp' = "step" /\ (simulation.is_paused \/ simulation.is_stopped))
          => simulation' = simulation]_vars

\* C1 witness: step() has been called on a paused simulation that had
\* already run
C1_Witness ==
    /\ lastOp = "step"
    /\ simulation.is_paused /\ ~simulation.is_stopped
    /\ simulation.generation > 0

\* C2: from stop() on, nothing but reset() changes the generation or an
\* agent or leaves the stopped state, and the step() that follows a reset()
\* advances the generation.
C2_StoppedUntilReset ==
    [][/\ (simulation.is_stopped /\ lastOp' # "reset")
            => /\ simulation'.is_stopped
               /\ simulation'.generation = simulation.generation
               /\ Agents(simulation') = Agents(simulation)
       /\ (lastOp = "reset" /\ lastOp' = "step")
            => simulation'.generation = simulation.generation + 1]_vars

\* C2 witness: step() has been called on a stopped simulation after a
\* resume()
C2_Witness ==
    /\ lastOp = "step"
    /\ simulation.is_stopped /\ ~simulation.is_paused
    /\ simulation.generation > 0

\* C3: a step() called while neither paused nor stopped adds exactly one to
\* the generation, whether or not a stage raised.
C3_StepAddsOneGeneration ==
    [][(lastOp' = "step" /\ ~simulation.is_paused /\ ~simulation.is_stopped)
          => simulation'.generation = simulation.generation + 1]_vars

\* C3 witness: a step() in which a stage raised has ended
C3_Witness == lastOp = "step" /\ lastExc /\ simulation.generation > 0

\* C4 as stated: no public operation decreases the generation counter.
C4_GenerationNeverDecreases ==
    [][simulation'.generation >= simulation.generation]_vars

\* C4 amended: step, pause, resume, stop and update_parameters never
\* decrease the generation counter; reset sets it to 0.
C4_GenerationDecreasesOnlyByReset ==
    [][/\ lastOp' # "reset" => simulation'.generation >= simulation.generation
       /\ lastOp' = "reset" => simulation'.generation = 0]_vars

\* C4 witness: reset() has been called on a simulation whose glucose had
\* been fed on, that is, after steps
C4_Witness ==
    /\ lastOp = "reset"
    /\ simulation.generation = 0
    /\ \E i \in 1..Len(simulation.glucose) :
           simulation.glucose[i].energy < GLUCOSE_MAX_ENERGY

\* C5 as stated: a step() in which a stage raised leaves the simulation,
\* apart from the generation counter, as it was before the call.
C5_RaisedStepChangesOnlyGeneration ==
    [][(lastOp' = "step" /\ lastExc')
          => [simulation' EXCEPT !.generation = simulation.generation]
                 = simulation]_vars

\* C6 as stated: after reset() the simulation is what construction leaves:
\* generation 0, flags false, the initial counts of new agents, an empty
\* ranking cache, and the statistics ledger of construction.
C6_ResetEqualsConstruction ==
    lastOp = "reset" =>
        /\ simulation.generation = 0
        /\ ~simulation.is_paused /\ ~simulation.is_stopped
        /\ Len(simulation.bacteria) = INITIAL_BACTERIA_COUNT
        /\ Len(simulation.phagocytes) = INITIAL_PHAGOCYTE_COUNT
        /\ simulation.bacteria_rankings = <<>>
        /\ simulation.last_ranking_update = 0
        /\ simulation.stats = PostInitStats

\* C7 as stated: get_simulation_state() raises in no reachable state.
C7_GetSimulationStateNeverRaises ==
    "error" \notin DOMAIN get_simulation_state(simulation)

\* Thread t is inside a call of a Simulation method
InSimulationCall(t) == pc[t].at \in {"body", "stepping", "unlocked_call"}

\* C8: in the REST transport no call of a Simulation method by another
\* thread overlaps a step() running in a driver thread, every such call
\* being made while holding simulation_lock.
C8_NoCallOverlapsDriverStep ==
    \A d \in Drivers : \A t \in Threads \ {d} :
        pc[d].at = "stepping" => (InSimulationCall(t) => Holds(t))

\* A stopped simulation keeps its generation until a reset or a new start
StoppedKeepsGeneration ==
    (simulation # None /\ simulation.is_stopped
        /\ simulation'.generation # simulation.generation)
    => ~simulation'.is_stopped

\* While a driver's step is in flight no other thread changes the Simulation
StepIsExclusive ==
    (\E d \in Drivers : pc[d].at = "stepping") => simulation' = simulation

\* At most one effective step begins while a stop or reset request waits
AtMostOneOvertake == \A c \in Clients : waited'[c] <= 1

\* C9: after a stop the generation never changes again until reset, a
\* reset is never interleaved with a driver step, and while a stop or reset
\* request waits for the lock at most one step of the driver goes first.
C9_StopAndResetTakeEffect ==
    [][StoppedKeepsGeneration /\ StepIsExclusive /\ AtMostOneOvertake]_vars

\* The parts of C9 that the lock does give
C9_StopAndExclusionHold == [][StoppedKeepsGeneration /\ StepIsExclusive]_vars

\* C10: every bacterium and every phagocyte of the simulation has an energy
\* in 0..MAX_ENERGY (0 <= energy <= 200).
C10_EnergyInRange ==
    /\ \A i \in 1..Len(simulation.bacteria) :
          LET e == simulation.heap[simulation.bacteria[i]].energy
          IN 0 <= e /\ e <= MAX_ENERGY
    /\ \A i \in 1..Len(simulation.phagocytes) :
          LET e == simulation.phagocytes[i].energy
          IN 0 <= e /\ e <= MAX_ENERGY

\* C10 witness: a phagocyte has reached the energy cap by its captures
C10_Witness ==
    /\ lastOp = "step"
    /\ simulation.stats.total_captures >= 2
    /\ \E i \in 1..Len(simulation.phagocytes) :
          simulation.phagocytes[i].energy = MAX_ENERGY

\* C11 as stated: after a move() call the agent lies within
\* [radius, width - radius] and its velocity has magnitude 1.
C11_MoveKeepsArenaAndUnitSpeed ==
    lastOp \in {"move", "chase"} =>
        /\ AgentSize(simulation) <= simulation.x
        /\ simulation.x <= simulation.canvas_width - AgentSize(simulation)
        /\ Abs(simulation.v) = VEL_UNIT

\* The part of C11 that holds: Agent.move itself leaves the agent in the
\* arena with a unit velocity
C11_AgentMoveKeepsArenaAndUnitSpeed ==
    lastOp = "move" =>
        /\ AgentSize(simulation) <= simulation.x
        /\ simulation.x <= simulation.canvas_width - AgentSize(simulation)
        /\ Abs(simulation.v) = VEL_UNIT

\* C12: every gene value of every genome is in [0,1] after any mutation or
\* crossover, the inputs being in [0,1].
C12_GenesStayInUnitInterval ==
    /\ \A k \in DOMAIN simulation.ind1 : simulation.ind1[k] \in 0..GENE_MAX
    /\ \A k \in DOMAIN simulation.ind2 : simulation.ind2[k] \in 0..GENE_MAX

\* C12 witness: a Gaussian mutation has drawn a value that takes a gene
\* beyond 1 and the gene is 1
C12_Witness ==
    /\ lastOp = "_mutate_gaussian"
    /\ \E k \in DOMAIN simulation.ind1 :
          simulation.drawn[k] > GENE_MAX /\ simulation.ind1[k] = GENE_MAX

\* Live phagocyte i and live bacterium o of s are closer than CAPTURE_RADIUS
InCaptureRange(s, i, o) ==
    /\ is_alive(s.phagocytes[i])
    /\ is_alive(s.heap[o])
    /\ Abs(s.heap[o].x - s.phagocytes[i].x) < CAPTURE_RADIUS

\* The energy of phagocyte i of s after n captures
EnergyAfterCaptures(s, i, n) ==
    Min(MAX_ENERGY, s.phagocytes[i].energy + n * CaptureGain(s.phagocytes[i]))

\* C13 as stated: every live phagocyte and live bacterium closer than
\* CAPTURE_RADIUS at the interaction stage make a capture: the bacterium
\* leaves the collection and the phagocyte gains the energy of the capture.
C13_EveryPairInRangeCaptures ==
    (simulation.stage = "process_interactions" /\ simulation.done) =>
        LET s == simulation.before
            t == simulation.sim
        IN \A i \in 1..Len(s.phagocytes) :
             LET near == { o \in Range(s.bacteria) : InCaptureRange(s, i, o) }
             IN /\ near \cap Range(t.bacteria) = {}
                /\ t.phagocytes[i].energy
                      = EnergyAfterCaptures(s, i, Cardinality(near))

\* C13 amended: a live bacterium closer than CAPTURE_RADIUS to a live
\* phagocyte leaves the collection, captured by the first such phagocyte of
\* the collection; each phagocyte gains the energy of its own captures only.
C13_FirstPhagocyteInRangeCaptures ==
    (simulation.stage = "process_interactions" /\ simulation.done) =>
        LET s == simulation.before
            t == simulation.sim
        IN \A i \in 1..Len(s.phagocytes) :
             LET near == { o \in Range(s.bacteria) : InCaptureRange(s, i, o) }
                 own == { o \in near :
                            \A j \in 1..(i - 1) : ~InCaptureRange(s, j, o) }
             IN /\ near \cap Range(t.bacteria) = {}
                /\ t.phagocytes[i].energy
                      = EnergyAfterCaptures(s, i, Cardinality(own))

\* C13 witness: two live phagocytes stood where both bacteria were; the
\* first has captured both and reached the cap, the second has gained
\* nothing
C13_Witness ==
    /\ simulation.stage = "process_interactions" /\ simulation.done
    /\ \A i \in 1..2 : is_alive(simulation.before.phagocytes[i])
    /\ \A o \in 1..2 : InCaptureRange(simulation.before, 2, o)
                       /\ InCaptureRange(simulation.before, 1, o)
    /\ simulation.sim.bacteria = <<>>
    /\ simulation.sim.phagocytes[1].energy = MAX_ENERGY
    /\ simulation.sim.phagocytes[2].energy
          = simulation.before.phagocytes[2].energy

\* The distance of bacterium o to the phagocyte of a range query
QueryDistance(s, o) == Abs(s.heap[o].x - s.phagocytes[1].x)

\* Bacterium o is alive, closer than radius to the phagocyte of the query
\* and detected by it
QueryCandidate(s, o, radius) ==
    /\ is_alive(s.heap[o])
    /\ QueryDistance(s, o) < radius
    /\ detect_bacteria(s.phagocytes[1], s.heap[o], s.background_color)

\* C14 as stated: find_target_bacteria returns the most vulnerable of the
\* live bacteria that are detectable and within the detection radius, the
\* closer one of two equally vulnerable, and None exactly when there is none.
C14_TargetIsMostVulnerable ==
    (simulation.stage = "find_target_bacteria" /\ simulation.done) =>
        LET t == simulation.sim
            cand == { o \in Range(t.bacteria) :
                        QueryCandidate(t, o, DETECTION_RADIUS) }
            score(o) == get_vulnerability_score(t.heap[o], t.background_color)
        IN /\ (simulation.result = <<>>) <=> (cand = {})
           /\ simulation.result # <<>> =>
                LET target == simulation.result[1]
                IN /\ target \in cand
                   /\ \A o \in cand :
                        \/ score(target) > score(o)
                        \/ /\ score(target) = score(o)
                           /\ QueryDistance(t, target) <= QueryDistance(t, o)

RankingStats(s) ==
    IF "ranking_stats" \in DOMAIN s.stats
    THEN s.stats.ranking_stats.max_vulnerability ELSE <<>>

\* Some phagocyte is alive, so that move_agents makes a range query
LivePhagocyte(s) == \E i \in 1..Len(s.phagocytes) : is_alive(s.phagocytes[i])

\* C16: a step changes the ranking (the list, its generation stamp, its
\* statistics) only if a phagocyte queried it and generation -
\* last_ranking_update >= ranking_update_frequency, the new ranking then
\* carries the step's generation; and with frequency >= 1 a step computes
\* at most one ranking, however many phagocytes query.
C16_RankingRecomputedOnlyWhenDue ==
    [][LET s == simulation.sim
           t == simulation'.sim
           changed == \/ t.last_ranking_update # s.last_ranking_update
                      \/ t.bacteria_rankings # s.bacteria_rankings
                      \/ RankingStats(t) # RankingStats(s)
       IN /\ changed =>
               /\ LivePhagocyte(s)
               /\ t.generation - s.last_ranking_update
                     >= s.ranking_update_frequency
               /\ t.last_ranking_update = t.generation
          /\ s.ranking_update_frequency >= 1 =>
               RankingStats(t) \in
                   {RankingStats(s),
                    AppendCapped(RankingStats(s), t.generation)}]_vars

\* C16 witness: a step in which two live phagocytes queried has computed
\* exactly one ranking, under a frequency of at least 1
C16_Witness ==
    /\ simulation.stage = "step" /\ simulation.done
    /\ simulation.before.ranking_update_frequency >= 1
    /\ Len(simulation.before.phagocytes) = 2
    /\ \A i \in 1..2 : is_alive(simulation.before.phagocytes[i])
    /\ simulation.sim.last_ranking_update = simulation.sim.generation
    /\ Len(RankingStats(simulation.sim))
          = Len(RankingStats(simulation.before)) + 1

ReproducedFrom(b, a) ==
    /\ a.reproduction_cooldown = BACTERIA_REPRODUCTION_COOLDOWN
    /\ a.energy = b.energy - BACTERIA_REPRODUCTION_ENERGY_COST
    /\ a.offspring_count = b.offspring_count + 1

\* The bacterium is below the energy threshold or cooling down
Barred(b) ==
    \/ b.energy < BACTERIA_REPRODUCTION_ENERGY_THRESHOLD
    \/ b.reproduction_cooldown > 0

\* C18: reproduce_asexually of a bacterium below the energy threshold or
\* with a cooldown returns None and changes nothing, and a call that
\* returns a child leaves the parent with the cooldown set, the cost paid
\* and one more offspring; asexual_reproduction adds one child for each
\* parent that paid, and none for the bacteria that were barred.
C18_ReproductionNeedsEnergyAndNoCooldown ==
    /\ (simulation.stage = "reproduce_asexually" /\ simulation.done) =>
          LET b == simulation.before.heap[1]
              a == simulation.sim.heap[1]
          IN /\ Barred(b) => (simulation.result = <<>>
                                /\ simulation.sim = simulation.before)
             /\ simulation.result # <<>> => ReproducedFrom(b, a)
             /\ simulation.result = <<>> => a = b
    /\ (simulation.stage = "asexual_reproduction" /\ simulation.done) =>
          LET s == simulation.before
              t == simulation.sim
              parents == { o \in Range(s.bacteria) : t.heap[o] # s.heap[o] }
          IN /\ \A o \in Range(s.bacteria) :
                   /\ Barred(s.heap[o]) => t.heap[o] = s.heap[o]
                   /\ o \in parents => ReproducedFrom(s.heap[o], t.heap[o])
             /\ Len(t.bacteria) = Len(s.bacteria) + Cardinality(parents)
             /\ SubSeq(t.bacteria, 1, Len(s.bacteria)) = s.bacteria

\* C18 witness: asexual_reproduction has run on one bacterium that was
\* barred and one that was not, and exactly the second has a child
C18_Witness ==
    /\ simulation.stage = "asexual_reproduction" /\ simulation.done
    /\ Barred(simulation.before.heap[1])
    /\ ~Barred(simulation.before.heap[2])
    /\ simulation.sim.heap[2] # simulation.before.heap[2]
    /\ Len(simulation.sim.bacteria) = Len(simulation.before.bacteria) + 1

\* C19: after control_population_size there are at most MAX_POPULATION
\* bacteria and at most MAX_POPULATION // 2 phagocytes, all of them agents
\* that were there before.
C19_PopulationsWithinLimits ==
    (simulation.stage = "control_population_size" /\ simulation.done) =>
        /\ Len(simulation.sim.bacteria) <= MAX_POPULATION
        /\ Len(simulation.sim.phagocytes) <= MAX_POPULATION \div 2
        /\ Range(simulation.sim.bacteria) \subseteq
              Range(simulation.before.bacteria)
        /\ Range(simulation.sim.phagocytes) \subseteq
              Range(simulation.before.phagocytes)

\* C19 witness: control_population_size has cut both populations, each
\* above its limit before, down to the limit
C19_Witness ==
    /\ simulation.stage = "control_population_size" /\ simulation.done
    /\ Len(simulation.before.bacteria) > MAX_POPULATION
    /\ Len(simulation.before.phagocytes) > MAX_POPULATION \div 2
    /\ Len(simulation.sim.bacteria) = MAX_POPULATION
    /\ Len(simulation.sim.phagocytes) = MAX_POPULATION \div 2

\* C20 as stated: at the end of a step whose generation is a multiple of
\* GENERATIONS_PER_EPOCH no bacterium of before the step is left, and
\* every bacterium and phagocyte has energy 100.0 and age 0.
C20_EpochReplacesPopulations ==
    (/\ simulation.stage = "step" /\ simulation.done
     /\ simulation.sim.generation = simulation.before.generation + 1
     /\ simulation.sim.generation % GENERATIONS_PER_EPOCH = 0) =>
        LET t == simulation.sim
        IN /\ Range(t.bacteria) \cap Range(simulation.before.bacteria) = {}
           /\ \A o \in Range(t.bacteria) :
                 t.heap[o].energy = BASE_ENERGY /\ t.heap[o].age = 0
           /\ \A i \in 1..Len(t.phagocytes) :
                 t.phagocytes[i].energy = BASE_ENERGY
                   /\ t.phagocytes[i].age = 0

\* C21 as stated: no two bacteria of the collection share an id, and no
\* two phagocytes do, after asexual reproduction and after an epoch.
C21_IdsAreUnique ==
    /\ \A i \in 1..Len(simulation.sim.bacteria) :
         \A j \in 1..Len(simulation.sim.bacteria) :
            simulation.ids[simulation.sim.bacteria[i]]
               = simulation.ids[simulation.sim.bacteria[j]] => i = j
    /\ \A i \in 1..Len(simulation.pids) : \A j \in 1..Len(simulation.pids) :
            simulation.pids[i] = simulation.pids[j] => i = j

\* C22: of two bacteria with the same energy and age, the one whose colour
\* is at least as far from the background has at least the vulnerability
\* score of the other, and every score lies in [0,1] (0..VulnerabilityScale).
C22_VulnerabilityMonotoneInColourDistance ==
    (simulation.fn = "get_vulnerability_score" /\ simulation.done) =>
        /\ simulation.ra \in 0..VulnerabilityScale
        /\ simulation.rb \in 0..VulnerabilityScale
        /\ ColorDiff(simulation.a.color, simulation.background)
              <= ColorDiff(simulation.b.color, simulation.background)
           => simulation.ra <= simulation.rb

\* C22 witness: two bacteria at different colour distances have been
\* scored, and the farther one scores strictly higher
C22_Witness ==
    /\ simulation.fn = "get_vulnerability_score" /\ simulation.done
    /\ ColorDiff(simulation.a.color, simulation.background)
          < ColorDiff(simulation.b.color, simulation.background)
    /\ simulation.ra < simulation.rb

\* C27 as stated: a bacterium that is not detected at fitness f is not
\* detected at any fitness f' >= f, by the same phagocyte, at the same
\* colour distance.
C27_CamouflageNeverHelpsDetection ==
    (/\ simulation.fn = "detect_bacteria" /\ simulation.done
     /\ simulation.a.fitness <= simulation.b.fitness)
    => (simulation.ra = FALSE => simulation.rb = FALSE)

\* The rolling histories of the statistics ledger, by name; a history that
\* the ledger does not hold yet is empty
Histories(s) ==
    LET st == s.stats
        has(k) == k \in DOMAIN st
    IN [max_fitness_bacteria |-> st.max_fitness_history.bacteria,
        max_fitness_phagocytes |-> st.max_fitness_history.phagocytes,
        avg_fitness_bacteria |-> st.avg_fitness_history.bacteria,
        avg_fitness_phagocytes |-> st.avg_fitness_history.phagocytes,
        population_bacteria |-> st.population_history.bacteria,
        population_phagocytes |-> st.population_history.phagocytes,
        generation_times |-> st.generation_times,
        vulnerability_avg |-> IF has("vulnerability_stats")
                              THEN st.vulnerability_stats.avg ELSE <<>>,
        vulnerability_max |-> IF has("vulnerability_stats")
                              THEN st.vulnerability_stats.max ELSE <<>>,
        vulnerability_min |-> IF has("vulnerability_stats")
                              THEN st.vulnerability_stats.min ELSE <<>>,
        ranking_max |-> IF has("ranking_stats")
                        THEN st.ranking_stats.max_vulnerability ELSE <<>>,
        ranking_avg |-> IF has("ranking_stats")
                        THEN st.ranking_stats.avg_vulnerability ELSE <<>>,
        asexual_reproductions |-> IF has("asexual_reproductions")
                                  THEN st.asexual_reproductions ELSE <<>>]

\* History h2 is h after k appends that each dropped the oldest entry of a
\* full history: h2 ends with the k new entries, before them come the
\* newest entries of h, and an entry of h is missing only if h2 is full
AppendedTo(h, h2, k) ==
    LET keep == Len(h2) - k
    IN /\ keep >= 0 /\ keep <= Len(h)
       /\ SubSeq(h2, 1, keep) = SubSeq(h, Len(h) - keep + 1, Len(h))
       /\ keep = Len(h) \/ Len(h2) = MAX_HISTORY
       /\ Len(h2) <= MAX_HISTORY

\* C23: a step leaves every rolling history of the ledger with at most
\* max_history entries; it appends at most one entry to each (one for each
\* phagocyte's query to the ranking statistics), and what a full history
\* loses on an append is its oldest entry.
C23_HistoriesAreBoundedAndEvictOldest ==
    [][LET h == Histories(simulation.sim)
           h2 == Histories(simulation'.sim)
       IN \A k \in DOMAIN h :
             \E n \in 0..(IF k \in {"ranking_max", "ranking_avg"}
                          THEN Len(simulation.sim.phagocytes) ELSE 1) :
                AppendedTo(h[k], h2[k], n)]_vars

\* C23 for the log of asexual_reproduction, which appends one entry for
\* each child
C23_ReproductionLogIsBoundedAndEvictsOldest ==
    (simulation.stage = "asexual_reproduction" /\ simulation.done) =>
        AppendedTo(Histories(simulation.before).asexual_reproductions,
                   Histories(simulation.sim).asexual_reproductions,
                   Len(simulation.sim.bacteria)
                      - Len(simulation.before.bacteria))

\* C23 witness: a step has appended to full histories, which now hold the
\* entries of the last max_history generations and no older one
C23_Witness ==
    /\ simulation.stage = "step" /\ simulation.done
    /\ Len(simulation.before.stats.generation_times) = MAX_HISTORY
    /\ Len(simulation.sim.stats.generation_times) = MAX_HISTORY
    /\ simulation.sim.stats.generation_times
          = Tail(simulation.before.stats.generation_times)
               \o <<simulation.sim.generation>>
    /\ Len(simulation.sim.stats.population_history.bacteria) = MAX_HISTORY

\* C24: a glucose is consumed exactly when its energy is 0 or less; a
\* consumed glucose stays consumed, and a consume() call on it returns 0
\* and changes nothing.
C24_ConsumedIffNoEnergy ==
    /\ [](simulation.fn = "consume" =>
             (simulation.a.consumed <=> simulation.a.energy <= 0))
    /\ [][(simulation.fn = "consume" /\ simulation.a.consumed) =>
             /\ simulation'.a = simulation.a
             /\ simulation'.ra = 0]_vars

\* C24 witness: consume() has been called on a consumed glucose
C24_Witness ==
    /\ simulation.fn = "consume" /\ simulation.done
    /\ simulation.a.consumed
    /\ simulation.ra = 0
    /\ simulation.b > 0

\* The simulations a tick leaves when its stages run on s in the order:
\* move agents, reproduction cooldowns, interactions (then the glucose
\* replenishment), fitness, asexual reproduction, the epoch when due,
\* dead-agent removal, type cleanup, statistics, population caps
StagesInOrder(s) ==
    LET moved == move_agents(s)
        cooled == { update_reproduction_cooldowns(m) : m \in moved }
        met == { process_interactions(c) : c \in cooled }
        fed == UNION { manage_glucose(i.sim) :
                         i \in { j \in met : ~j.raised } }
        scored == { calculate_fitness(f) : f \in fed }
        grown == UNION { asexual_reproduction(f) : f \in scored }
        evolved == UNION { IF g.generation % GENERATIONS_PER_EPOCH = 0
                           THEN coevolution_step(g) ELSE {g} : g \in grown }
        living == { clean_dead_agents(e) : e \in evolved }
        typed == { clean_incorrect_agents(l) : l \in living }
        counted == { update_statistics(t) : t \in typed }
    IN { control_population_size(c) : c \in counted }

C25_EpochWitness ==
    /\ simulation.stage = "step" /\ simulation.done /\ ~lastExc
    /\ simulation.sim.generation = GENERATIONS_PER_EPOCH
    /\ simulation.sim.bacteria # <<>>
    /\ Range(simulation.sim.bacteria)
          \cap Range(simulation.before.bacteria) = {}

\* C26: every Phagocyte.move call on a live phagocyte, chasing a target
\* or wandering, adds 1 to its age and takes ENERGY_LOSS from its energy
\* (not below 0).
C26_PhagocyteMoveAgesAndSpends ==
    [][(simulation.species = "phagocyte" /\ is_alive(simulation)) =>
          /\ simulation'.age = simulation.age + 1
          /\ simulation'.energy = Max(0, simulation.energy - ENERGY_LOSS)]_vars

\* A range query that finds the ranking due and so starts with
\* update_bacteria_rankings(); the query itself changes nothing more
RankingRefreshed ==
    /\ simulation.stage \in {"get_ranked_bacteria_in_range",
                             "find_target_bacteria"}
    /\ ~simulation.done
    /\ RankingDue(simulation.sim)

\* C28: right after update_bacteria_rankings() the cached ranking holds
\* exactly the live bacteria of the collection, each once, in order of
\* non-increasing vulnerability score, and last_ranking_update is the
\* current generation.
C28_RankingHoldsLiveBacteriaByVulnerability ==
    [][RankingRefreshed =>
        LET t == simulation'.sim
            q == t.bacteria_rankings
            live == { o \in Range(t.bacteria) : is_alive(t.heap[o]) }
            score(o) == get_vulnerability_score(t.heap[o], t.background_color)
        IN /\ Range(q) = live
           /\ Len(q) = Cardinality(live)
           /\ \A i \in 1..Len(q) : \A j \in i..Len(q) :
                 score(q[i]) >= score(q[j])
           /\ t.last_ranking_update = t.generation]_vars

\* C28 witness: a recomputed ranking that puts the second bacterium of the
\* collection, the more vulnerable one, first
C28_Witness ==
    /\ simulation.stage = "get_ranked_bacteria_in_range" /\ simulation.done
    /\ RankingDue(simulation.before)
    /\ Len(simulation.sim.bacteria) = 2
    /\ LET t == simulation.sim
           q == t.bacteria_rankings
       IN /\ Len(q) = 2
          /\ q[1] = t.bacteria[2]
          /\ get_vulnerability_score(t.heap[q[1]], t.background_color)
                > get_vulnerability_score(t.heap[q[2]], t.background_color)

\* C29: a step whose generation after the increment is a positive multiple
\* of GENERATIONS_PER_EPOCH runs the coevolution epoch, also after
\* reset(): no stage before the epoch ends the tick.
C29_EpochRunsAtEveryMultiple ==
    [][(/\ lastOp' = "step"
        /\ simulation'.generation = simulation.generation + 1
        /\ simulation'.generation % GENERATIONS_PER_EPOCH = 0)
          => ~lastExc']_vars

\* C30: after a step that runs the epoch, each species has at least
\* MIN_POP_SIZE agents: evolve_population has padded a smaller population
\* and the generation step has completed on it.
C30_EpochLeavesMinimumPopulations ==
    [][(/\ simulation.stage = "step" /\ lastOp' = "step" /\ ~lastExc'
        /\ simulation'.sim.generation = simulation.sim.generation + 1
        /\ simulation'.sim.generation % GENERATIONS_PER_EPOCH = 0)
          => /\ Len(simulation'.sim.bacteria) >= MIN_POP_SIZE
             /\ Len(simulation'.sim.phagocytes) >= MIN_POP_SIZE]_vars

\* The number of phagocytes of list q that are fitter than phagocyte p
FitterThan(q, p) ==
    Cardinality({ i \in 1..Len(q) : FracLess(p.fitness, q[i].fitness) })

\* C31: control_population_size leaves a population at or below its cap
\* as it was; of a population above its cap it keeps exactly cap agents,
\* each at least as fit as every agent it removes.
C31_TruncationKeepsTheFittest ==
    (simulation.stage = "control_population_size" /\ simulation.done) =>
        LET b == simulation.before
            t == simulation.sim
            cap == MAX_POPULATION \div 2
        IN /\ IF Len(b.bacteria) <= MAX_POPULATION
              THEN t.bacteria = b.bacteria
              ELSE /\ Len(t.bacteria) = MAX_POPULATION
                   /\ Cardinality(Range(t.bacteria)) = MAX_POPULATION
                   /\ Range(t.bacteria) \subseteq Range(b.bacteria)
                   /\ \A o \in Range(t.bacteria) :
                      \A c \in Range(b.bacteria) \ Range(t.bacteria) :
                         b.heap[o].fitness >= b.heap[c].fitness
           /\ IF Len(b.phagocytes) <= cap
              THEN t.phagocytes = b.phagocytes
              ELSE /\ Len(t.phagocytes) = cap
                   /\ \A i \in 1..cap :
                        /\ Cardinality({ j \in 1..cap :
                              t.phagocytes[j] = t.phagocytes[i] })
                             <= Cardinality({ j \in 1..Len(b.phagocytes) :
                                   b.phagocytes[j] = t.phagocytes[i] })
                        /\ FitterThan(b.phagocytes, t.phagocytes[i])
                             = FitterThan(t.phagocytes, t.phagocytes[i])

\* C31 witness: both populations were above their caps with agents of
\* different fitness, the less fit ones first, and have been cut
C31_Witness ==
    /\ simulation.stage = "control_population_size" /\ simulation.done
    /\ LET b == simulation.before
       IN /\ Len(b.bacteria) > MAX_POPULATION
          /\ Len(b.phagocytes) > MAX_POPULATION \div 2
          /\ b.heap[b.bacteria[1]].fitness
                < b.heap[b.bacteria[Len(b.bacteria)]].fitness
          /\ FracLess(b.phagocytes[1].fitness,
                      b.phagocytes[Len(b.phagocytes)].fitness)
    /\ Len(simulation.sim.bacteria) = MAX_POPULATION
    /\ simulation.sim.bacteria[1] # simulation.before.bacteria[1]

\* The energy of the glucose items of list q together
GlucoseEnergy(q) == SeqSum([i \in 1..Len(q) |-> q[i].energy])

\* C32: in the feeding of one process_interactions call each live
\* bacterium takes at most one portion from a glucose, the bacteria gain
\* together what the glucose loses, and no glucose that has become
\* inactive is left in the collection.
C32_FeedingTakesOnePortionAndRemovesEmptyGlucose ==
    [][(simulation.stage = "process_interactions" /\ ~simulation.done) =>
        LET s == simulation.sim
            t == simulation'.sim
            gain(o) == t.heap[o].energy - s.heap[o].energy
        IN /\ \A o \in Range(t.bacteria) :
                /\ gain(o) >= 0
                /\ gain(o) <= BACTERIA_GLUCOSE_CONSUMPTION_RATE
                /\ ~is_alive(s.heap[o]) => gain(o) = 0
           /\ SeqSum([i \in 1..Len(t.bacteria) |-> gain(t.bacteria[i])])
                 = GlucoseEnergy(s.glucose) - GlucoseEnergy(t.glucose)
           /\ \A i \in 1..Len(t.glucose) : is_active(t.glucose[i])]_vars

\* C33: an evolve_population call runs its operators with the parameters
\* the genetic algorithm holds at that moment, those update_parameters set
\* last: the crossover probability, and the sigma and the per-gene
\* probability of the Gaussian mutation.
C33_EpochUsesUpdatedParameters ==
    [][lastOp' = "evolve_population" =>
        LET ga == simulation'.sim.ga
            a == simulation'.applied[1]
        IN /\ a.bacteria.cxpb = ga.crossover_rate
           /\ a.bacteria.sigma = ga.mutation_strength
           /\ a.bacteria.indpb = ga.mutation_rate
           /\ a.phagocytes.cxpb = 8 * ga.crossover_rate
           /\ a.phagocytes.sigma = 15 * ga.mutation_strength
           /\ a.phagocytes.indpb = 12 * ga.mutation_rate]_vars

\* C34: at the end of a step that ran its pipeline to the end every agent
\* of both collections is alive: energy > 0 and age < MAX_AGE.
C34_NoDeadAgentAfterStep ==
    (simulation.stage = "step" /\ simulation.done /\ ~lastExc) =>
        LET t == simulation.sim
        IN /\ \A o \in Range(t.bacteria) :
                 t.heap[o].energy > 0 /\ t.heap[o].age < MAX_AGE
           /\ \A i \in 1..Len(t.phagocytes) :
                 t.phagocytes[i].energy > 0 /\ t.phagocytes[i].age < MAX_AGE

\* C34 witness: a step in which nothing was captured has ended without
\* the bacterium that starved in it
C34_Witness ==
    /\ simulation.stage = "step" /\ simulation.done /\ ~lastExc
    /\ simulation.sim.stats.total_captures = 0
    /\ simulation.sim.generation % GENERATIONS_PER_EPOCH # 0
    /\ simulation.before.bacteria # <<>>
    /\ simulation.before.heap[simulation.before.bacteria[1]].energy
          <= ENERGY_LOSS
    /\ Len(simulation.sim.bacteria) = Len(simulation.before.bacteria) - 1
    /\ simulation.sim.phagocytes # <<>>

\* C35: every bacterium that get_ranked_bacteria_in_range or
\* find_target_bacteria returns is in the simulation's bacteria collection.
C35_TargetsAreCurrentBacteria ==
    (/\ simulation.stage \in {"get_ranked_bacteria_in_range",
                              "find_target_bacteria"}
     /\ simulation.done) =>
        \A i \in 1..Len(simulation.result) :
            simulation.result[i] \in Range(simulation.sim.bacteria)

\* Steps leave a simulation whose cached ranking holds a live bacterium
\* that has left the collection, with no refresh due at the next step
C35_StaleRankingAfterSteps ==
    /\ simulation.stage = "step" /\ simulation.done
    /\ \E o \in Range(simulation.sim.bacteria_rankings) :
          /\ o \notin Range(simulation.sim.bacteria)
          /\ is_alive(simulation.sim.heap[o])
    /\ ~RankingDue([simulation.sim EXCEPT !.generation = @ + 1])

\* C36: the first step after construction or reset(), in which the live
\* phagocytes make the first targeting requests, computes the ranking
\* before it is consulted: it leaves a ranking computed at generation 1.
C36_FirstQueryComputesRanking ==
    [][(/\ lastOp' = "step"
        /\ simulation.generation = 0 /\ simulation'.generation = 1
        /\ simulation.last_ranking_update = 0
        /\ \E i \in 1..Len(simulation.phagocytes) :
              is_alive(simulation.phagocytes[i]))
          => simulation'.last_ranking_update = 1]_vars

\* C37: with the default configuration (a tick costs more than a feeding
\* gives, and the reproduction threshold is above the energy of a new
\* agent) no bacterium ever has more energy than a new one, none can
\* reproduce asexually, total_reproductions stays 0, and a step without an
\* epoch never leaves more bacteria than it found.
C37_BacteriaNeverReachReproductionEnergy ==
    /\ [](/\ \A o \in Range(simulation.bacteria) :
               /\ simulation.heap[o].energy <= BASE_ENERGY
               /\ ~can_reproduce_asexually(simulation.heap[o])
          /\ simulation.stats.total_reproductions = 0)
    /\ [][(lastOp' = "step" /\ ~EpochDue(simulation'))
             => Len(simulation'.bacteria) <= Len(simulation.bacteria)]_vars

\* C37 witness: a bacterium has moved and fed in a step
C37_Witness ==
    /\ lastOp = "step" /\ ~lastExc
    /\ simulation.generation >= 1
    /\ simulation.stats.glucose_consumed > 0
    /\ \E o \in Range(simulation.bacteria) :
          simulation.heap[o].energy
             = BASE_ENERGY - ENERGY_LOSS + BACTERIA_GLUCOSE_CONSUMPTION_RATE

\* C38: the generation counter never exceeds max_generations; a step()
\* called at generation max_generations does not advance the simulation.
C38_GenerationWithinMaxGenerations ==
    /\ [](simulation.generation <= simulation.max_generations)
    /\ [][(lastOp' = "step"
           /\ simulation.generation >= simulation.max_generations)
             => simulation' = simulation]_vars

\* C39: at most one driver thread is inside the loop body of
\* run_simulation_loop, waiting for simulation_lock or stepping the
\* simulation under it; a start never leaves the previous driver at work
\* alongside the new one.
C39_AtMostOneDriverSteps ==
    Cardinality({ d \in Drivers :
                    pc[d].ep = "driver"
                    /\ pc[d].at \in {"acquire", "locked", "stepping"} }) <= 1

\* C40: between requests, is_running is true only while a driver thread is
\* alive and the simulation is not stopped, so that step() is still being
\* called and can advance the generation.
C40_RunningMeansDriven ==
    (is_running /\ \A c \in Clients : pc[c] = Idle)
        => /\ simulation # None
           /\ ~simulation.is_stopped
           /\ \E d \in Drivers : pc[d] # Unborn /\ pc[d].at # "done"

====
